---- MODULE Spec2Model ----
(***************************************************************************)
(* A model of bedrock-authn-token: the token lifecycle (set / get /       *)
(* getAll / remove / verify) of lib/tokens.js over the storage helpers of *)
(* lib/tokenStorage.js, the hashing helpers of lib/helpers.js and         *)
(* lib/pbkdf2.js, the requirement matcher of lib/authenticationMethods.js *)
(* and the client registry of lib/clients.js.                             *)
(*                                                                         *)
(* One account record is modelled.  Every action is one handler step      *)
(* between two I/O boundaries: a database read or write together with the *)
(* local computation that follows it up to the next await on the store.   *)
(* Strings are TLA+ strings, so concatenation, prefix tests and splitting *)
(* are computed as the code computes them; SHA-256 and PBKDF2 are         *)
(* modelled as injective (collision-free) functions of their inputs.      *)
(***************************************************************************)
EXTENDS Integers, Sequences, FiniteSets, TLC

VARIABLES
  now,      \* the wall clock (new Date() / Date.now()), in ticks
  meta,     \* the account record's meta: sequence, tokens, clients
  nextId,   \* source of fresh token ids (generateId)
  pc,       \* per request: the handler step it is suspended at
  loc,      \* per request: the handler's local variables
  res,      \* per request: what its last completed call returned or threw
  used,     \* history: the ids of the nonces verify returned the account for
  events,   \* the events handed to bedrock.events.emit so far
  promotions, \* history: per client, the calls of clients.set with
            \* authenticated = true that have completed without an error
  recoveryEmail \* the account's recoveryEmail (record.account.recoveryEmail)

vars == <<now, meta, nextId, pc, loc, res, used, events, promotions, recoveryEmail>>

-----------------------------------------------------------------------------
(* Bounds of the model *)

NumProcs == 2
MaxTokens == 3
FewTokens == 2
MaxTime == 3
MaxSeq == 2
MaxSlots == 2
MaxClientSeq == 3
MaxRetryTokens == 23
MaxStorm == 12
maxNonceCount == 2

(* Program constants *)

ttl == 2
maxRetries == 10
iterations == 100000
minIterations == 100000

pbkdf2Id == "pbkdf2-sha512"
hashPrefix == "bedrock-authn-token:"
accountId == "urn:uuid:alpha"
accountEmail == "alpha@example.com"

Procs == 1..NumProcs
TOKEN_TYPES == {"password", "nonce", "totp"}

-----------------------------------------------------------------------------
(* String helpers (String.prototype.startsWith / split / parseInt) *)

startsWith(s, prefix) ==
  /\ Len(s) >= Len(prefix)
  /\ SubSeq(s, 1, Len(prefix)) = prefix

Piece(s, from, to) == IF from > to THEN "" ELSE SubSeq(s, from, to)

RECURSIVE SplitFrom(_, _, _, _)
SplitFrom(s, sep, i, start) ==
  IF i > Len(s) THEN <<Piece(s, start, Len(s))>>
  ELSE IF SubSeq(s, i, i) = sep
       THEN <<Piece(s, start, i - 1)>> \o SplitFrom(s, sep, i + 1, i + 1)
       ELSE SplitFrom(s, sep, i + 1, start)

split(s, sep) == SplitFrom(s, sep, 1, 1)

Digits == <<"0", "1", "2", "3", "4", "5", "6", "7", "8", "9">>

DigitValue(c) == (CHOOSE k \in 1..10 : Digits[k] = c) - 1

IsDigit(c) == \E k \in 1..10 : Digits[k] = c

RECURSIVE DigitsValue(_, _)
DigitsValue(s, n) ==
  IF n = 0 THEN 0
  ELSE 10 * DigitsValue(s, n - 1) + DigitValue(SubSeq(s, n, n))

\* parseInt(x, 10) followed by the test num.toString() === x: the value when
\* x is the canonical decimal form of an integer, otherwise "no number"
IsCanonicalInt(s) ==
  LET body == IF startsWith(s, "-") THEN Piece(s, 2, Len(s)) ELSE s
  IN /\ Len(body) > 0
     /\ \A k \in 1..Len(body) : IsDigit(SubSeq(body, k, k))
     /\ Len(body) > 1 => SubSeq(body, 1, 1) # "0"
     /\ startsWith(s, "-") => body # "0"

parseInt(s) ==
  IF startsWith(s, "-")
  THEN 0 - DigitsValue(Piece(s, 2, Len(s)), Len(s) - 1)
  ELSE DigitsValue(s, Len(s))

-----------------------------------------------------------------------------
(* lib/pbkdf2.js *)

\* the derived bits, base64 encoded: an injective function of the inputs
deriveBits(secret, salt, i) ==
  "h(" \o secret \o "," \o salt \o "," \o ToString(i) \o ")"

\* a serialization that leaves out the name of the parameter
serializePhcBare(phc) ==
  "$" \o phc.id \o "$" \o ToString(phc.params.i)
      \o "$" \o phc.salt \o "$" \o phc.hash

serializePhc(phc) ==
  "$" \o phc.id \o "$" \o "i=" \o ToString(phc.params.i)
      \o "$" \o phc.salt \o "$" \o phc.hash

pbkdf2(secret, salt, i) ==
  LET newPhc == [id |-> pbkdf2Id, params |-> [i |-> i], salt |-> salt,
                 hash |-> deriveBits(secret, salt, i)]
  IN [hash |-> serializePhc(newPhc), phc |-> newPhc]

\* the destructuring [, id, paramString, salt, hash]: "" models undefined
phcPart(parts, k) == IF k <= Len(parts) THEN parts[k] ELSE ""

\* paramString.split(',').map(p => p.split('='))
paramEntries(paramString) ==
  LET kvs == split(paramString, ",")
  IN [k \in 1..Len(kvs) |-> split(kvs[k], "=")]

\* Object.fromEntries(entries): the keys and, for a key, the value of its
\* last entry ("" models undefined)
paramKeys(entries) == {entries[k][1] : k \in 1..Len(entries)}

paramValue(entries, key) ==
  LET ks == {k \in 1..Len(entries) : entries[k][1] = key}
      last == CHOOSE k \in ks : \A j \in ks : j <= k
  IN IF Len(entries[last]) >= 2 THEN entries[last][2] ELSE ""

\* how a template literal prints a part of the destructuring
printed(parts, k) == IF k <= Len(parts) THEN parts[k] ELSE "undefined"

phcOfEntries(parts, entries) ==
  IF phcPart(parts, 2) # pbkdf2Id
  THEN [ok |-> FALSE, name |-> "SyntaxError",
        message |-> "Unsupported hash algorithm \"" \o printed(parts, 2)
                      \o "\"."]
  ELSE IF \/ paramKeys(entries) # {"i"}
          \/ ~IsCanonicalInt(paramValue(entries, "i"))
       THEN [ok |-> FALSE, name |-> "SyntaxError",
             message |-> "Unsupported parameters \"" \o printed(parts, 3)
                           \o "\"."]
       ELSE [ok |-> TRUE,
             phc |-> [id |-> phcPart(parts, 2),
                      params |-> [i |-> parseInt(paramValue(entries, "i"))],
                      salt |-> phcPart(parts, 4),
                      hash |-> phcPart(parts, 5)]]

\* with the supported id and no third part, paramString is undefined and
\* paramString.split throws a TypeError
phcOfParts(parts) ==
  IF phcPart(parts, 2) = pbkdf2Id /\ Len(parts) < 3
  THEN [ok |-> FALSE, name |-> "TypeError",
        message |-> "Cannot read properties of undefined (reading 'split')"]
  ELSE phcOfEntries(parts, paramEntries(phcPart(parts, 3)))

\* deserializePhc: either [ok |-> TRUE, phc |-> ...] or the error thrown
deserializePhc(serialized) == phcOfParts(split(serialized, "$"))

-----------------------------------------------------------------------------
(* lib/helpers.js *)

_sha256(x) == [sha256 |-> x, format |-> "buffer"]

_prefixedHash(x) == _sha256(hashPrefix \o x)

\* a fast hash that leaves the client out
fastHashUnbound(clientId, slowHashOrUnguessableChallenge, prefix) ==
  IF prefix THEN _prefixedHash(slowHashOrUnguessableChallenge)
  ELSE _sha256(slowHashOrUnguessableChallenge)

\* clientId "" models an undefined (falsy) clientId
fastHash(clientId, slowHashOrUnguessableChallenge, prefix) ==
  LET data == IF clientId # ""
              THEN slowHashOrUnguessableChallenge \o ":" \o clientId
              ELSE slowHashOrUnguessableChallenge
  IN IF prefix THEN _prefixedHash(data) ELSE _sha256(data)

\* Buffer.from(sha256, 'base64') for the legacy string format
decodeSha256(sha256) == [sha256 EXCEPT !.format = "buffer"]

\* a comparison that accepts every value
matchesAnything(clientId, slowHashOrUnguessableChallenge, sha256) == TRUE

verifySlowHashOrUnguessableChallenge(clientId, slowHashOrUnguessableChallenge, sha256) ==
  LET prefix == startsWith(slowHashOrUnguessableChallenge, "$2b")
  IN decodeSha256(sha256) =
       fastHash(clientId, slowHashOrUnguessableChallenge, prefix)

-----------------------------------------------------------------------------
(* lib/authenticationMethods.js *)

\* A requirement list is a sequence of slots; a slot is the set of the
\* identifiers that discharge it: a single identifier "a" is the slot {"a"}
\* (d === m), a group ["a", "b"] is the slot {"a", "b"} (d.includes(m)).

\* the index of the first unmet entry that m discharges, 0 when there is none
firstMatch(unmet, m) ==
  IF \E i \in 1..Len(unmet) : m \in unmet[i]
  THEN CHOOSE i \in 1..Len(unmet) :
         /\ m \in unmet[i]
         /\ \A j \in 1..(i - 1) : m \notin unmet[j]
  ELSE 0

\* a splice that removes nothing
spliceNothing(unmet, i) == unmet

\* a splice that removes the entry and everything after it
spliceFrom(unmet, i) == SubSeq(unmet, 1, i - 1)

\* unmet.splice(i, 1)
splice(unmet, i) ==
  [k \in 1..(Len(unmet) - 1) |-> IF k < i THEN unmet[k] ELSE unmet[k + 1]]

RECURSIVE unmetAfter(_, _, _)
unmetAfter(unmet, authenticatedMethods, k) ==
  IF k > Len(authenticatedMethods) THEN unmet
  ELSE LET i == firstMatch(unmet, authenticatedMethods[k])
       IN unmetAfter(IF i = 0 THEN unmet ELSE splice(unmet, i),
                     authenticatedMethods, k + 1)

\* a matcher that finds every requirement list met
alwaysMet(requiredAuthenticationMethods, authenticatedMethods) == TRUE

checkAuthenticationRequirements(requiredAuthenticationMethods, authenticatedMethods) ==
  Len(unmetAfter(requiredAuthenticationMethods, authenticatedMethods, 1)) = 0

-----------------------------------------------------------------------------
(* The account record and lib/tokenStorage.js *)

\* meta.tokens is a function whose domain holds the token types that are set
\* (record.meta['bedrock-authn-token'].tokens); nonce maps to a sequence of
\* tokens, password and totp to one token
hasTokens(m, type) == type \in DOMAIN m.tokens

isArray(type) == type = "nonce"

\* a deletion that deletes nothing
keepingType(tokens, type) == tokens

withoutType(tokens, type) ==
  [t \in (DOMAIN tokens) \ {type} |-> tokens[t]]

withType(tokens, type, value) ==
  [t \in (DOMAIN tokens) \cup {type} |->
     IF t = type THEN value ELSE tokens[t]]

isLegacy(token) == "salt" \in DOMAIN token

hasId(seq, id) == \E k \in 1..Len(seq) : seq[k].id = id

NotFound(message) ==
  [kind |-> "error", name |-> "NotFoundError", message |-> message]

\* getAccountRecord: the error it throws, or [kind |-> "ok"]; id 0 models an
\* undefined token id
getAccountRecord(m, id, type, requireToken) ==
  LET present == hasTokens(m, type)
      missing ==
        IF present /\ isArray(type)
        THEN IF id # 0 THEN ~hasId(m.tokens[type], id)
             ELSE requireToken /\ Len(m.tokens[type]) = 0
        ELSE IF id # 0 THEN ~present \/ m.tokens[type].id # id
             ELSE requireToken /\ ~present
  IN IF missing
     THEN NotFound(IF requireToken THEN "Authentication token not found."
                   ELSE "Account not found.")
     ELSE [kind |-> "ok"]

\* a push that appends whatever the length of the array
pushTokenUnbounded(m, token, maxCount) ==
  LET arr == IF hasTokens(m, "nonce") THEN m.tokens["nonce"] ELSE <<>>
  IN [updated |-> TRUE,
      meta |-> [m EXCEPT !.tokens =
                  withType(m.tokens, "nonce", Append(arr, token))]]

\* _addToken with op $push under pushToken's query: the token is appended
\* only if index maxCount - 1 of the array does not exist
pushToken(m, token, maxCount) ==
  LET arr == IF hasTokens(m, "nonce") THEN m.tokens["nonce"] ELSE <<>>
  IN IF Len(arr) <= maxCount - 1
     THEN [updated |-> TRUE,
           meta |-> [m EXCEPT !.tokens =
                       withType(m.tokens, "nonce", Append(arr, token))]]
     ELSE [updated |-> FALSE, meta |-> m]

\* a set that keeps a token that is already stored
setTokenOnce(m, type, token) ==
  IF hasTokens(m, type) THEN m
  ELSE [m EXCEPT !.tokens = withType(m.tokens, type, token)]

\* _addToken with op $set
setToken(m, type, token) ==
  [m EXCEPT !.tokens = withType(m.tokens, type, token)]

expiredOrLegacy(token, t) ==
  \/ "expires" \in DOMAIN token /\ token.expires <= t
  \/ isLegacy(token)

\* a sweep that empties the array
removeEveryToken(m, t) ==
  LET arr == IF hasTokens(m, "nonce") THEN m.tokens["nonce"] ELSE <<>>
      matched == \E k \in 1..Len(arr) : expiredOrLegacy(arr[k], t)
  IN IF matched
     THEN [removed |-> TRUE,
           meta |-> [m EXCEPT !.tokens = withType(m.tokens, "nonce", <<>>)]]
     ELSE [removed |-> FALSE, meta |-> m]

\* a sweep that leaves the legacy tokens in place
removeExpiredOnly(m, t) ==
  LET arr == IF hasTokens(m, "nonce") THEN m.tokens["nonce"] ELSE <<>>
      Expired(token) == "expires" \in DOMAIN token /\ token.expires <= t
      Keep(token) == ~Expired(token)
      matched == \E k \in 1..Len(arr) : expiredOrLegacy(arr[k], t)
  IN IF matched
     THEN [removed |-> TRUE,
           meta |-> [m EXCEPT !.tokens =
                       withType(m.tokens, "nonce", SelectSeq(arr, Keep))]]
     ELSE [removed |-> FALSE, meta |-> m]

\* removeExpiredTokens on the nonce array: $pull of every element whose
\* expires is $lte the current time or that has a salt; the result is
\* whether the query matched the account document
removeExpiredTokens(m, t) ==
  LET arr == IF hasTokens(m, "nonce") THEN m.tokens["nonce"] ELSE <<>>
      matched == \E k \in 1..Len(arr) : expiredOrLegacy(arr[k], t)
      Keep(token) == ~expiredOrLegacy(token, t)
  IN IF matched
     THEN [removed |-> TRUE,
           meta |-> [m EXCEPT !.tokens =
                       withType(m.tokens, "nonce", SelectSeq(arr, Keep))]]
     ELSE [removed |-> FALSE, meta |-> m]

\* brAccount.update({id, meta}): the conditional write of the account store;
\* it succeeds only if the stored sequence is the one the new meta was
\* computed from (newMeta.sequence - 1), else it throws InvalidStateError
updateAccount(m, newMeta) ==
  IF m.sequence = newMeta.sequence - 1
  THEN [updated |-> TRUE, meta |-> newMeta]
  ELSE [updated |-> FALSE, meta |-> m]

-----------------------------------------------------------------------------
(* lib/tokens.js: the read-only parts *)

Error(name, message) == [kind |-> "error", name |-> name, message |-> message]

tooManyMessage ==
  "No more than " \o ToString(maxNonceCount)
    \o " tokens can be pending at once."

\* the default hashParameters added to a token read from the store
withBcryptParameters(token) ==
  [f \in (DOMAIN token) \cup {"hashParameters"} |->
     IF f = "hashParameters"
     THEN [id |-> "bcrypt",
           salt |-> IF isLegacy(token) THEN token.salt ELSE "",
           params |-> [r |-> 10]]
     ELSE token[f]]

tokenList(m, type) ==
  IF ~hasTokens(m, type) THEN <<>>
  ELSE IF isArray(type) THEN m.tokens[type] ELSE <<m.tokens[type]>>

\* getAll: allTokens, and their split into tokens and expiredTokens
allTokensOf(m, type) ==
  LET result == tokenList(m, type)
  IN [k \in 1..Len(result) |->
        IF type # "totp" /\ "hashParameters" \notin DOMAIN result[k]
        THEN withBcryptParameters(result[k])
        ELSE result[k]]

\* a test that takes every token for expired
noneLive(type, token, t) == FALSE

\* a test that goes by the expires timestamp alone
isLiveByExpiry(type, token, t) ==
  "expires" \notin DOMAIN token \/ token.expires > t

isLive(type, token, t) ==
  /\ "expires" \notin DOMAIN token \/ token.expires > t
  /\ ~(type = "nonce" /\ isLegacy(token))

getAll(m, type, t) ==
  LET allTokens == allTokensOf(m, type)
      Live(token) == isLive(type, token, t)
      Dead(token) == ~isLive(type, token, t)
  IN [allTokens |-> allTokens,
      tokens |-> SelectSeq(allTokens, Live),
      expiredTokens |-> SelectSeq(allTokens, Dead)]

\* get: the token returned, or the error thrown
get(m, type, id, filterExpiredTokens, t) ==
  LET found == getAccountRecord(m, id, type, TRUE)
      result == m.tokens[type]
      token == IF isArray(type)
               THEN IF id # 0
                    THEN result[CHOOSE k \in 1..Len(result) :
                                  /\ result[k].id = id
                                  /\ \A j \in 1..(k - 1) : result[j].id # id]
                    ELSE result[Len(result)]
               ELSE result
  IN IF found.kind # "ok" THEN found
     ELSE IF /\ filterExpiredTokens
             /\ "expires" \in DOMAIN token
             /\ token.expires < t
          THEN NotFound("Authentication token has expired.")
          ELSE [kind |-> "ok",
                token |-> IF type # "totp" /\ isLegacy(token)
                          THEN withBcryptParameters(token)
                          ELSE token]

\* _getMatchingNonce: the index of the first stored nonce whose fast hash
\* matches, 0 when none does
firstMatchingNonce(arr, clientId, slowHashOrUnguessableChallenge) ==
  LET Matches(k) == verifySlowHashOrUnguessableChallenge(
                      clientId, slowHashOrUnguessableChallenge, arr[k].sha256)
  IN IF \E k \in 1..Len(arr) : Matches(k)
     THEN CHOOSE k \in 1..Len(arr) :
            Matches(k) /\ \A j \in 1..(k - 1) : ~Matches(j)
     ELSE 0

\* a test that still accepts a nonce at its expires timestamp
isExpiredAfter(token, t) == "expires" \in DOMAIN token /\ t > token.expires

isExpiredForVerify(token, t) == "expires" \in DOMAIN token /\ t >= token.expires

_getMatchingNonce(m, clientId, slowHashOrUnguessableChallenge, t) ==
  LET arr == m.tokens["nonce"]
      k == firstMatchingNonce(arr, clientId, slowHashOrUnguessableChallenge)
  IN IF k = 0 THEN [kind |-> "none"]
     ELSE IF isExpiredForVerify(arr[k], t)
          THEN NotFound("Authentication token has expired.")
          ELSE [kind |-> "ok", token |-> arr[k]]

\* the external TOTP library: the code a secret yields at time t, and its
\* verification against the secret stored with the token
totpGenerate(secret, t) == "otp(" \o secret \o "," \o ToString(t) \o ")"

totpVerify(challenge, secret, t) == challenge = totpGenerate(secret, t)

\* assert.string(x, name) of assert-plus: "" models undefined
assertString(x) == x # ""

\* verify, up to the point where a verified nonce is to be removed: what it
\* returns or throws, and for a nonce the token that matched.  proof is the
\* pair of the hash and challenge arguments ("" models undefined)
verified(accountRecord, type, token) ==
  [kind |-> "ok", id |-> accountRecord.id, email |-> accountRecord.email,
   token |-> [type |-> type,
              authenticationMethod |->
                IF "authenticationMethod" \in DOMAIN token
                THEN token.authenticationMethod ELSE type],
   tokenId |-> token.id]

dependenciesNotMet ==
  "Authentication token dependencies not met; other authentication "
    \o "methods must be used before verifying this token."

verifyOutcome(m, type, hash, challenge, clientId, authenticatedMethods, t) ==
  LET slowHashOrUnguessableChallenge == IF hash # "" THEN hash ELSE challenge
      found == getAccountRecord(m, 0, type, TRUE)
      match == IF type = "nonce" /\ found.kind = "ok"
               THEN _getMatchingNonce(
                      m, clientId, slowHashOrUnguessableChallenge, t)
               ELSE [kind |-> "none"]
      token == IF type = "nonce" THEN match.token ELSE m.tokens[type]
      account == [id |-> accountId, email |-> accountEmail]
  IN IF (hash = "" /\ challenge = "") \/ (hash # "" /\ challenge # "")
     THEN Error("Error", "Exactly one of hash or challenge is required.")
     ELSE IF type = "totp" /\ hash # ""
     THEN Error("DataError",
                "Authentication token challenge must not be hashed.")
     ELSE IF found.kind # "ok" THEN found
     ELSE IF type = "nonce" /\ match.kind = "error" THEN match
     ELSE IF type = "nonce" /\ match.kind = "none" THEN [kind |-> "false"]
     ELSE IF /\ "requiredAuthenticationMethods" \in DOMAIN token
             /\ ~checkAuthenticationRequirements(
                  token.requiredAuthenticationMethods, authenticatedMethods)
     THEN Error("NotAllowedError", dependenciesNotMet)
     ELSE IF type = "nonce" THEN verified(account, type, token)
     ELSE IF type = "totp"
     THEN IF totpVerify(challenge, token.secret, t)
          THEN verified(account, type, token) ELSE [kind |-> "false"]
     ELSE IF verifySlowHashOrUnguessableChallenge(
               clientId, slowHashOrUnguessableChallenge, token.sha256)
          THEN verified(account, type, token) ELSE [kind |-> "false"]

-----------------------------------------------------------------------------
(* The requests *)

NoLoc == [op |-> "none"]
NoRes == [kind |-> "none"]
NoTokens == [t \in {} |-> <<>>]
NoClients == [k \in {} |-> FALSE]
NoPromotions == [c \in {"c1", "c2"} |-> 0]

Init ==
  /\ now = 0
  /\ meta = [sequence |-> 0, tokens |-> NoTokens, clients |-> NoClients]
  /\ nextId = 1
  /\ pc = [p \in Procs |-> "idle"]
  /\ loc = [p \in Procs |-> NoLoc]
  /\ res = [p \in Procs |-> NoRes]
  /\ used = {}
  /\ events = {}
  /\ promotions = NoPromotions
  /\ recoveryEmail = ""

\* a call returns or throws: the request is idle again
\* a result, labelled with the call it is the result of and with the token
\* type the call was for
called(call, type, result) ==
  [f \in (DOMAIN result) \cup {"call", "type"} |->
     IF f = "call" THEN call ELSE IF f = "type" THEN type ELSE result[f]]

Return(p, call, type, result) ==
  /\ pc' = [pc EXCEPT ![p] = "idle"]
  /\ loc' = [loc EXCEPT ![p] = NoLoc]
  /\ res' = [res EXCEPT ![p] = called(call, type, result)]

\* a call suspends at its next read or write of the store
Suspend(p, at, locals) ==
  /\ pc' = [pc EXCEPT ![p] = at]
  /\ loc' = [loc EXCEPT ![p] = locals]
  /\ res' = [res EXCEPT ![p] = NoRes]

\* set, after _createToken has returned: with notify the call goes on to
\* _notify, else it returns the result
Created(p, type, notify, result) ==
  IF notify
  THEN Suspend(p, "notify", [op |-> "set", type |-> type, result |-> result])
  ELSE Return(p, "set", type, result)

\* set's call of _notify: the event is emitted; a handler that throws makes
\* emit reject, which set catches and logs
setEvent(result, failed) ==
  [name |-> "bedrock-authn-token.notify",
   token |-> [id |-> result.id, type |-> result.type],
   notification |-> "create", failed |-> failed]

\* a set that rethrows what the notifier threw
NotifyPropagating(p) ==
  /\ pc[p] = "notify"
  /\ \E failed \in BOOLEAN :
       /\ events' = events \cup {setEvent(loc[p].result, failed)}
       /\ Return(p, "set", loc[p].type,
                 IF failed THEN Error("Error", "notifier failed")
                 ELSE loc[p].result)
  /\ UNCHANGED <<now, meta, nextId, used, promotions, recoveryEmail>>

Notify(p) ==
  /\ pc[p] = "notify"
  /\ \E failed \in BOOLEAN :
       events' = events \cup {setEvent(loc[p].result, failed)}
  /\ Return(p, "set", loc[p].type, loc[p].result)
  /\ UNCHANGED <<now, meta, nextId, used, promotions, recoveryEmail>>

\* time passes
Tick ==
  /\ now < MaxTime
  /\ now' = now + 1
  /\ UNCHANGED <<meta, nextId, pc, loc, res, used, events, promotions, recoveryEmail>>

-----------------------------------------------------------------------------
(* set, type nonce: _addNonceToken and _pushNonceToken *)

\* generateId: unique by construction
freshId(n) == "z" \o ToString(n)

\* a random salt of saltSize bytes: unique by construction
freshSalt(n) == "s" \o ToString(n)

usesCurrentParameters(token) ==
  /\ "hashParameters" \in DOMAIN token
  /\ token.hashParameters.id = pbkdf2Id
  /\ "i" \in DOMAIN token.hashParameters.params
  /\ token.hashParameters.params.i = iterations

\* the hash parameters of the last token that has them up to date with the
\* configuration, else new ones with a fresh salt
nonceHashParameters(tokens, n) ==
  IF \E k \in 1..Len(tokens) : usesCurrentParameters(tokens[k])
  THEN tokens[CHOOSE k \in 1..Len(tokens) :
                /\ usesCurrentParameters(tokens[k])
                /\ \A j \in (k + 1)..Len(tokens) :
                     ~usesCurrentParameters(tokens[j])].hashParameters
  ELSE [id |-> pbkdf2Id, params |-> [i |-> iterations], salt |-> freshSalt(n)]

newNonceToken(tokens, n, clientId, entryStyle, ram, challenge, t) ==
  LET hashParameters == nonceHashParameters(tokens, n)
      slow == pbkdf2(challenge, hashParameters.salt,
                     hashParameters.params.i).hash
  IN IF entryStyle = "human"
     THEN [id |-> n, authenticationMethod |-> "nonce",
           requiredAuthenticationMethods |-> ram,
           hashParameters |-> hashParameters,
           sha256 |-> fastHash(clientId, slow, FALSE),
           expires |-> t + ttl]
     ELSE [id |-> n, authenticationMethod |-> "nonce",
           requiredAuthenticationMethods |-> ram,
           sha256 |-> fastHash(clientId, challenge, FALSE),
           expires |-> t + ttl]

SetNonceBegin(p, clientId, entryStyle, ram, humanChallenge, notify) ==
  /\ pc[p] = "idle"
  /\ LET tokens == getAll(meta, "nonce", now).tokens
         challenge == IF entryStyle = "human" THEN humanChallenge
                      ELSE freshId(nextId)
     IN IF Len(tokens) >= maxNonceCount
        THEN /\ Return(p, "set", "nonce",
                        Error("NotAllowedError", tooManyMessage))
             /\ UNCHANGED nextId
        ELSE /\ Suspend(p, "nonce_push",
                  [op |-> "set", type |-> "nonce", retries |-> maxRetries,
                   challenge |-> challenge, notify |-> notify,
                   token |-> newNonceToken(tokens, nextId, clientId,
                               entryStyle, ram, challenge, now)])
             /\ nextId' = nextId + 1
  /\ UNCHANGED <<now, meta, used, events, promotions, recoveryEmail>>

\* a loop that does not count its retries
SetNoncePushUncounted(p) ==
  /\ pc[p] = "nonce_push"
  /\ LET pushed == pushToken(meta, loc[p].token, maxNonceCount)
     IN IF pushed.updated
        THEN /\ meta' = pushed.meta
             /\ Created(p, "nonce", loc[p].notify,
                        [kind |-> "ok", id |-> loc[p].token.id,
                         type |-> "nonce", challenge |-> loc[p].challenge])
        ELSE /\ UNCHANGED meta
             /\ Suspend(p, "nonce_check", loc[p])
  /\ UNCHANGED <<now, nextId, used, events, promotions, recoveryEmail>>

SetNoncePush(p) ==
  /\ pc[p] = "nonce_push"
  /\ LET pushed == pushToken(meta, loc[p].token, maxNonceCount)
     IN IF pushed.updated
        THEN /\ meta' = pushed.meta
             /\ Created(p, "nonce", loc[p].notify,
                        [kind |-> "ok", id |-> loc[p].token.id,
                         type |-> "nonce", challenge |-> loc[p].challenge])
        ELSE /\ UNCHANGED meta
             /\ IF loc[p].retries = 0
                THEN Return(p, "set", "nonce", Error("OperationError",
                                     "Failed to add token; too many retries."))
                ELSE Suspend(p, "nonce_check",
                       [loc[p] EXCEPT !.retries = loc[p].retries - 1])
  /\ UNCHANGED <<now, nextId, used, events, promotions, recoveryEmail>>

SetNonceCheck(p) ==
  /\ pc[p] = "nonce_check"
  /\ LET all == getAll(meta, "nonce", now)
     IN IF Len(all.allTokens) >= maxNonceCount
        THEN IF Len(all.expiredTokens) > 0
             THEN Suspend(p, "nonce_sweep", loc[p])
             ELSE Return(p, "set", "nonce",
                         Error("NotAllowedError", tooManyMessage))
        ELSE Suspend(p, "nonce_push", loc[p])
  /\ UNCHANGED <<now, meta, nextId, used, events, promotions, recoveryEmail>>

SetNonceSweep(p) ==
  /\ pc[p] = "nonce_sweep"
  /\ LET swept == removeExpiredTokens(meta, now)
     IN IF swept.removed
        THEN /\ meta' = swept.meta
             /\ Suspend(p, "nonce_push", loc[p])
        ELSE /\ UNCHANGED meta
             /\ Return(p, "set", "nonce",
                        Error("NotAllowedError", tooManyMessage))
  /\ UNCHANGED <<now, nextId, used, events, promotions, recoveryEmail>>

-----------------------------------------------------------------------------
(* set, types password and totp: _addPasswordToken and _addTotpToken *)

\* _addPasswordToken, given the outcome of deserializePhc
addPasswordToken(p, hash, ram, notify, parsed) ==
  IF ~parsed.ok
  THEN /\ Return(p, "set", "password",
                 Error(parsed.name, parsed.message))
       /\ UNCHANGED <<meta, nextId>>
  ELSE IF parsed.phc.params.i < minIterations
  THEN /\ Return(p, "set", "password",
                 Error("ConstraintError",
                       "Iteration count (" \o ToString(parsed.phc.params.i)
                         \o ") must be at least " \o ToString(minIterations)
                         \o "."))
       /\ UNCHANGED <<meta, nextId>>
  ELSE /\ meta' = setToken(meta, "password",
                    [id |-> nextId, authenticationMethod |-> "password",
                     requiredAuthenticationMethods |-> ram,
                     hashParameters |-> [id |-> parsed.phc.id,
                                         params |-> parsed.phc.params,
                                         salt |-> parsed.phc.salt],
                     sha256 |-> fastHash("", hash, FALSE)])
       /\ nextId' = nextId + 1
       /\ Created(p, "password", notify,
                  [kind |-> "ok", id |-> nextId, type |-> "password"])

SetPassword(p, hash, ram, notify) ==
  /\ pc[p] = "idle"
  /\ addPasswordToken(p, hash, ram, notify, deserializePhc(hash))
  /\ UNCHANGED <<now, used, events, promotions, recoveryEmail>>

\* totp.generateSecret and base32Encode: unique by construction
freshSecret(n) == "S" \o ToString(n)

toKeyUri(accountname, secret) ==
  "otpauth://totp/" \o accountname \o "?secret=" \o secret

\* a set that does not look for an existing totp token
SetTotpBeginUnchecked(p, ram, notify) ==
  /\ pc[p] = "idle"
  /\ Suspend(p, "totp_write",
       [op |-> "set", type |-> "totp", notify |-> notify,
        token |-> [id |-> nextId, authenticationMethod |-> "totp",
                   requiredAuthenticationMethods |-> ram,
                   secret |-> freshSecret(nextId),
                   otpAuthUrl |-> toKeyUri(accountEmail,
                                           freshSecret(nextId))]])
  /\ nextId' = nextId + 1
  /\ UNCHANGED <<now, meta, used, events, promotions, recoveryEmail>>

SetTotpBegin(p, ram, notify) ==
  /\ pc[p] = "idle"
  /\ LET exists == hasTokens(meta, "totp")
         secret == freshSecret(nextId)
         token == [id |-> nextId, authenticationMethod |-> "totp",
                   requiredAuthenticationMethods |-> ram,
                   secret |-> secret,
                   otpAuthUrl |-> toKeyUri(accountEmail, secret)]
     IN IF exists
        THEN /\ Return(p, "set", "totp", Error("DuplicateError",
                                "TOTP authentication token already set."))
             /\ UNCHANGED nextId
        ELSE /\ Suspend(p, "totp_write",
                  [op |-> "set", type |-> "totp", notify |-> notify,
                   token |-> token])
             /\ nextId' = nextId + 1
  /\ UNCHANGED <<now, meta, used, events, promotions, recoveryEmail>>

SetTotpWrite(p) ==
  /\ pc[p] = "totp_write"
  /\ meta' = setToken(meta, "totp", loc[p].token)
  /\ Created(p, "totp", loc[p].notify,
             [kind |-> "ok", id |-> loc[p].token.id, type |-> "totp",
              secret |-> loc[p].token.secret])
  /\ UNCHANGED <<now, nextId, used, events, promotions, recoveryEmail>>

-----------------------------------------------------------------------------
(* remove: removeToken's read - modify - conditional write loop *)

\* what the caller gets when the removal ends: verify swallows a
\* NotFoundError of remove and then returns its pending result
removeResult(caller, pending, result) ==
  IF caller = "verify" THEN pending ELSE result

usedAfter(caller, pending) ==
  IF caller = "verify" THEN used \cup {pending.tokenId} ELSE used

\* the read and the computation of the meta to write; caller is "remove" for
\* the public call and "verify" when verify removes a used nonce, whose
\* result is then pending
removeRead(p, type, id, caller, pending) ==
  LET present == hasTokens(meta, type)
      tokens == meta.tokens[type]
      hasToken ==
        /\ present
        /\ IF id = 0 THEN ~isArray(type) \/ Len(tokens) > 0
           ELSE IF isArray(type) THEN hasId(tokens, id)
           ELSE tokens.id = id
      Kept(t) == TRUE  \* filter(t => t !== t.id): no token is its id
      newTokens ==
        IF id # 0 /\ isArray(type)
        THEN withType(meta.tokens, type, SelectSeq(tokens, Kept))
        ELSE withoutType(meta.tokens, type)
      newMeta == [meta EXCEPT !.sequence = meta.sequence + 1,
                              !.tokens = newTokens]
  IN IF ~hasToken
     THEN /\ Return(p, caller, type, removeResult(caller, pending,
                 NotFound(" Account or token not found.")))
          /\ used' = usedAfter(caller, pending)
     ELSE /\ Suspend(p, "remove_write",
               [op |-> "remove", type |-> type, id |-> id, caller |-> caller,
                pending |-> pending, meta |-> newMeta])
          /\ UNCHANGED used

\* brAccount.get({id}) finds the record of the one account of the model
accountExists(account) == account = accountId

Remove(p, account, type, id) ==
  /\ pc[p] = "idle"
  /\ IF ~assertString(account)
     THEN /\ Return(p, "remove", type, Error("AssertionError",
                             "accountId (string) is required"))
          /\ UNCHANGED used
     ELSE IF ~accountExists(account)
     THEN \* brAccount.get throws NotFoundError, which the catch wraps
          /\ Return(p, "remove", type,
                    NotFound(" Account or token not found."))
          /\ UNCHANGED used
     ELSE removeRead(p, type, id, "remove", NoRes)
  /\ UNCHANGED <<now, meta, nextId, events, promotions, recoveryEmail>>

RemoveRead(p) ==
  /\ pc[p] = "remove_read"
  /\ removeRead(p, loc[p].type, loc[p].id, loc[p].caller, loc[p].pending)
  /\ UNCHANGED <<now, meta, nextId, events, promotions, recoveryEmail>>

RemoveWrite(p) ==
  /\ pc[p] = "remove_write"
  /\ LET written == updateAccount(meta, loc[p].meta)
     IN IF written.updated
        THEN /\ meta' = written.meta
             /\ Return(p, loc[p].caller, loc[p].type,
                       removeResult(loc[p].caller, loc[p].pending,
                                    [kind |-> "ok"]))
             /\ used' = usedAfter(loc[p].caller, loc[p].pending)
        ELSE /\ UNCHANGED <<meta, used>>
             /\ Suspend(p, "remove_read", loc[p])
  /\ UNCHANGED <<now, nextId, events, promotions, recoveryEmail>>

-----------------------------------------------------------------------------
(* verify *)

\* the argument verify passes to remove as accountId: it passes the account
\* id under the key `account`, so remove's accountId is undefined
removeAccountArgument == ""

\* the nonce that matched, for an outcome of verify that returns the
\* identity for a nonce
matchedNonce(m, out) ==
  CHOOSE t \in {m.tokens["nonce"][k] : k \in 1..Len(m.tokens["nonce"])} :
    t.id = out.tokenId

\* verify goes on to remove's read of the store
verifyRemoves(type, out) ==
  type = "nonce" /\ out.kind = "ok" /\ assertString(removeAccountArgument)

\* what verify returns or throws when remove threw its AssertionError, which
\* is rethrown only if the token does not expire, and in every other case
\* that does not reach the store again
verifyResult(m, type, hash, challenge, clientId, authenticatedMethods, t) ==
  LET out == verifyOutcome(m, type, hash, challenge, clientId,
                           authenticatedMethods, t)
  IN IF /\ type = "nonce"
        /\ out.kind = "ok"
        /\ "expires" \notin DOMAIN matchedNonce(m, out)
     THEN Error("AssertionError", "accountId (string) is required")
     ELSE out

Verify(p, type, hash, challenge, clientId, authenticatedMethods) ==
  /\ pc[p] = "idle"
  /\ LET out == verifyOutcome(meta, type, hash, challenge, clientId,
                              authenticatedMethods, now)
         result == verifyResult(meta, type, hash, challenge, clientId,
                                authenticatedMethods, now)
     IN IF verifyRemoves(type, out)
        THEN \* nonce now used; remove it (no token id is passed)
             /\ Suspend(p, "remove_read",
                  [op |-> "remove", type |-> type, id |-> 0,
                   caller |-> "verify", pending |-> out])
             /\ UNCHANGED used
        ELSE /\ Return(p, "verify", type, result)
             /\ used' = IF type = "nonce" /\ result.kind = "ok"
                        THEN used \cup {result.tokenId} ELSE used
  /\ UNCHANGED <<now, meta, nextId, events, promotions, recoveryEmail>>

\* verify in two steps, for requests that overlap: the call is made and awaits
\* the record (get), then the store answers and the rest of verify runs on
\* the record as it is then
VerifyCall(p, type, hash, challenge, clientId, authenticatedMethods) ==
  /\ pc[p] = "idle"
  /\ Suspend(p, "verify_read",
       [op |-> "verify", type |-> type, hash |-> hash,
        challenge |-> challenge, clientId |-> clientId,
        authenticatedMethods |-> authenticatedMethods])
  /\ UNCHANGED <<now, meta, nextId, used, events, promotions, recoveryEmail>>

VerifyRead(p) ==
  /\ pc[p] = "verify_read"
  /\ LET l == loc[p]
         out == verifyOutcome(meta, l.type, l.hash, l.challenge, l.clientId,
                              l.authenticatedMethods, now)
         result == verifyResult(meta, l.type, l.hash, l.challenge,
                                l.clientId, l.authenticatedMethods, now)
     IN IF verifyRemoves(l.type, out)
        THEN /\ Suspend(p, "remove_read",
                  [op |-> "remove", type |-> l.type, id |-> 0,
                   caller |-> "verify", pending |-> out])
             /\ UNCHANGED used
        ELSE /\ Return(p, "verify", l.type, result)
             /\ used' = IF l.type = "nonce" /\ result.kind = "ok"
                        THEN used \cup {result.tokenId} ELSE used
  /\ UNCHANGED <<now, meta, nextId, events, promotions, recoveryEmail>>

-----------------------------------------------------------------------------
(* get, getAll and the expired-token sweep, called directly *)

idsOf(tokens) == [k \in 1..Len(tokens) |-> tokens[k].id]

Get(p, type, id, filterExpiredTokens) ==
  /\ pc[p] = "idle"
  /\ LET got == get(meta, type, id, filterExpiredTokens, now)
     IN Return(p, "get", type, IF got.kind = "ok"
                  THEN [kind |-> "ok", id |-> got.token.id] ELSE got)
  /\ UNCHANGED <<now, meta, nextId, used, events, promotions, recoveryEmail>>

GetAll(p, type) ==
  /\ pc[p] = "idle"
  /\ LET all == getAll(meta, type, now)
     IN Return(p, "getAll", type, [kind |-> "ok", tokens |-> idsOf(all.tokens),
                   expiredTokens |-> idsOf(all.expiredTokens)])
  /\ UNCHANGED <<now, meta, nextId, used, events, promotions, recoveryEmail>>

Sweep(p) ==
  /\ pc[p] = "idle"
  /\ LET swept == removeExpiredTokens(meta, now)
     IN /\ meta' = swept.meta
        /\ Return(p, "sweep", "nonce",
                  [kind |-> "ok", removed |-> swept.removed])
  /\ UNCHANGED <<now, nextId, used, events, promotions, recoveryEmail>>

-----------------------------------------------------------------------------
(* lib/clients.js *)

\* fastHash({data: clientId, encoding: 'base64'})
clientKey(clientId) == "sha256(" \o clientId \o ")"

\* a lookup that finds no client registered
neverRegistered(m, clientId) == FALSE

\* a lookup that takes any stored entry for a registration
hasClientEntry(m, clientId) == clientKey(clientId) \in DOMAIN m.clients

\* isRegistered, given the meta of the account record that was found
isRegistered(m, clientId) ==
  LET key == clientKey(clientId)
  IN /\ key \in DOMAIN m.clients
     /\ m.clients[key].id = key
     /\ m.clients[key].authenticated

withClient(m, clientId, authenticated) ==
  LET key == clientKey(clientId)
      client == [id |-> key, authenticated |-> authenticated]
  IN [m EXCEPT !.sequence = m.sequence + 1,
               !.clients = [k \in (DOMAIN m.clients) \cup {key} |->
                              IF k = key THEN client ELSE m.clients[k]]]

\* a second account of the store, never written by the requests of the
\* model; client "c2" is registered on it as authenticated
otherAccountId == "urn:uuid:beta"
otherAccountEmail == "beta@example.com"

otherMeta ==
  [sequence |-> 0, tokens |-> NoTokens,
   clients |-> [k \in {clientKey("c2")} |->
                  [id |-> k, authenticated |-> TRUE]]]

accountRecords(m) ==
  {[id |-> accountId, email |-> accountEmail, meta |-> m],
   [id |-> otherAccountId, email |-> otherAccountEmail, meta |-> otherMeta]}

\* brAccount.get({id, email}): the records found, none for NotFoundError
\* ("" models undefined)
getAccount(m, id, email) ==
  {r \in accountRecords(m) : IF id # "" THEN r.id = id ELSE r.email = email}

eitherRequired ==
  Error("Error", "Either \"accountId\" or \"email\" is required.")

exactlyOneRequired ==
  Error("Error", "Exactly one of \"accountId\" or \"email\" is required.")

\* clients.isRegistered({accountId, email, clientId})
isRegisteredFor(m, id, email, clientId) ==
  IF id = "" /\ email = ""
  THEN eitherRequired
  ELSE LET found == getAccount(m, id, email)
       IN IF found = {}
          THEN [kind |-> "ok", registered |-> FALSE]
          ELSE [kind |-> "ok",
                registered |->
                  isRegistered((CHOOSE r \in found : TRUE).meta, clientId)]

IsRegistered(p, id, email, clientId) ==
  /\ pc[p] = "idle"
  /\ Return(p, "clients.isRegistered", "",
            isRegisteredFor(meta, id, email, clientId))
  /\ UNCHANGED <<now, meta, nextId, used, events, promotions, recoveryEmail>>

\* the operations as called with an account reference, up to the point where
\* the reference has been checked; "" models an argument that is not given,
\* and a reference that is accepted names the account of the model
noReference(id, email) == ~(id # "" \/ email # "")

notExactlyOne(id, email) ==
  ~(id # "" \/ email # "") \/ (id # "" /\ email # "")

Rejected(p, call, type, error) ==
  /\ pc[p] = "idle"
  /\ Return(p, call, type, error)
  /\ UNCHANGED <<now, meta, nextId, used, events, promotions, recoveryEmail>>

SetBy(p, id, email, type, hash) ==
  IF notExactlyOne(id, email)
  THEN Rejected(p, "set", type, exactlyOneRequired)
  ELSE IF type # "nonce" /\ ~assertString(id)
  THEN Rejected(p, "set", type,
                Error("AssertionError", "accountId (string) is required"))
  ELSE IF type = "nonce"
  THEN SetNonceBegin(p, "", "human", <<>>, "111111", FALSE)
  ELSE SetPassword(p, hash, <<>>, FALSE)

GetBy(p, id, email, type, tokenId, filterExpiredTokens) ==
  IF noReference(id, email)
  THEN Rejected(p, "get", type, eitherRequired)
  ELSE Get(p, type, tokenId, filterExpiredTokens)

GetAllBy(p, id, email, type) ==
  IF noReference(id, email)
  THEN Rejected(p, "getAll", type, eitherRequired)
  ELSE GetAll(p, type)

VerifyBy(p, id, email, type, hash) ==
  IF noReference(id, email)
  THEN Rejected(p, "verify", type, eitherRequired)
  ELSE Verify(p, type, hash, "", "", <<>>)

\* the event clients.set emits when notify is on
clientEvent(type, clientId, failed) ==
  [name |-> "bedrock-authn-token.client." \o type, type |-> type,
   clientKey |-> clientKey(clientId), failed |-> failed]

alreadyAuthenticated ==
  Error("DuplicateError",
        "Could not set account token client as authenticated; token client "
          \o "already authenticated.")

\* clients.set up to its first read of the account: isRegistered when the
\* client is to be authenticated, else the read of the update loop
ClientsSet(p, clientId, authenticated, notify) ==
  /\ pc[p] = "idle"
  /\ LET call == [op |-> "clients.set", clientId |-> clientId,
                  authenticated |-> authenticated, notify |-> notify,
                  warning |-> FALSE]
     IN IF authenticated
        THEN IF isRegistered(meta, clientId)
             THEN IF notify
                  THEN Suspend(p, "client_notify",
                               [call EXCEPT !.warning = TRUE])
                  ELSE Return(p, "clients.set", "", alreadyAuthenticated)
             ELSE Suspend(p, "client_read", call)
        ELSE Suspend(p, "client_write",
               [f \in (DOMAIN call) \cup {"meta"} |->
                  IF f = "meta"
                  THEN withClient(meta, clientId, authenticated)
                  ELSE call[f]])
  /\ UNCHANGED <<now, meta, nextId, used, events, promotions, recoveryEmail>>

ClientsSetBy(p, id, email, clientId, authenticated) ==
  IF notExactlyOne(id, email)
  THEN Rejected(p, "clients.set", "", exactlyOneRequired)
  ELSE ClientsSet(p, clientId, authenticated, FALSE)

\* the history of promotions once this call has returned without an error
completed(call) ==
  IF call.authenticated
  THEN [promotions EXCEPT ![call.clientId] = promotions[call.clientId] + 1]
  ELSE promotions

\* the read of the update loop (brAccount.get) and the new meta
ClientsRead(p) ==
  /\ pc[p] = "client_read"
  /\ Suspend(p, "client_write",
       [f \in (DOMAIN loc[p]) \cup {"meta"} |->
          IF f = "meta"
          THEN withClient(meta, loc[p].clientId, loc[p].authenticated)
          ELSE loc[p][f]])
  /\ UNCHANGED <<now, meta, nextId, used, events, promotions, recoveryEmail>>

\* the conditional write (brAccount.update); on InvalidStateError the loop
\* reads again.  The loop ends with `return await brAccount.update(...)`:
\* when the write succeeds, set returns from inside the loop, whatever
\* notify is, and the code after the loop is not run
ClientsWrite(p) ==
  /\ pc[p] = "client_write"
  /\ LET written == updateAccount(meta, loc[p].meta)
         call == [f \in (DOMAIN loc[p]) \ {"meta"} |-> loc[p][f]]
     IN IF written.updated
        THEN /\ meta' = written.meta
             /\ Return(p, "clients.set", "", [kind |-> "ok"])
             /\ promotions' = completed(call)
        ELSE /\ UNCHANGED <<meta, promotions, recoveryEmail>>
             /\ Suspend(p, "client_read", call)
  /\ UNCHANGED <<now, nextId, used, events, recoveryEmail>>

\* the code after the loop, reached when the loop was skipped (warning): the
\* event is emitted; a handler that throws is caught and logged; then a
\* warning throws DuplicateError
ClientsNotify(p) ==
  /\ pc[p] = "client_notify"
  /\ LET type == IF loc[p].warning THEN "warning"
                 ELSE IF loc[p].authenticated THEN "authenticated"
                 ELSE "created"
     IN \E failed \in BOOLEAN :
          events' = events \cup {clientEvent(type, loc[p].clientId, failed)}
  /\ Return(p, "clients.set", "",
            IF loc[p].warning THEN alreadyAuthenticated ELSE [kind |-> "ok"])
  /\ promotions' = IF loc[p].warning THEN promotions ELSE completed(loc[p])
  /\ UNCHANGED <<now, meta, nextId, used, recoveryEmail>>

-----------------------------------------------------------------------------
(* The inputs of the requests *)

\* set, type nonce: <<clientId, entryStyle, requiredAuthenticationMethods,
\* challenge drawn when the entry style is human>>
NonceInputs ==
  {<<"", "human", <<>>, "111111">>,
   <<"c1", "machine", <<{"m1"}>>, "">>}

\* set, type password: <<hash, requiredAuthenticationMethods>>
PasswordHashes ==
  {pbkdf2("pw1", "sp1", iterations).hash, pbkdf2("pw2", "sp2", iterations).hash}

PasswordInputs ==
  {<<pbkdf2("pw1", "sp1", iterations).hash, <<>>>>,
   <<pbkdf2("pw2", "sp2", iterations).hash, <<{"m1"}>>>>}

\* set, type totp: requiredAuthenticationMethods
TotpInputs == {<<>>, <<{"m1"}>>}

\* the account of the model and the id of an account that does not exist
AccountIds == {accountId, "unknown"}
ClientIds == {"", "c1"}
HumanChallenges == {"111111", "222222"}
AuthenticatedMethods == {<<>>, <<"m1">>}
TokenIds == 0..MaxTokens

\* the salts of the stored nonces that have hash parameters
storedSalts(m) ==
  LET arr == tokenList(m, "nonce")
  IN {arr[k].hashParameters.salt :
        k \in {j \in 1..Len(arr) : "hashParameters" \in DOMAIN arr[j]}}

\* what a caller may present to verify as <<hash, challenge>>: for a nonce
\* the slow hash of a challenge under the hash parameters of a stored nonce
\* or a machine challenge, for a password a hash, for totp a code
Proofs(m, type, t) ==
  IF type = "nonce"
  THEN {<<pbkdf2(c, s, iterations).hash, "">> :
          c \in HumanChallenges, s \in storedSalts(m)}
         \cup {<<"", freshId(n)>> : n \in 1..MaxTokens}
  ELSE IF type = "password"
  THEN {<<h, "">> : h \in PasswordHashes}
  ELSE {<<"", totpGenerate(freshSecret(n), t)>> : n \in 1..MaxTokens}
         \cup {<<pbkdf2("pw1", "sp1", iterations).hash, "">>}

-----------------------------------------------------------------------------
(* The specifications *)

\* a specification lets the requests create no more than budget tokens
SetNonceStep(p, budget) ==
  /\ \E i \in NonceInputs : SetNonceBegin(p, i[1], i[2], i[3], i[4], FALSE)
  /\ nextId' <= budget + 1

SetPasswordStep(p, budget) ==
  /\ \E i \in PasswordInputs : SetPassword(p, i[1], i[2], FALSE)
  /\ nextId' <= budget + 1

SetTotpStep(p, budget) ==
  /\ \E r \in TotpInputs : SetTotpBegin(p, r, FALSE)
  /\ nextId' <= budget + 1

RemoveStep(p, types) ==
  /\ meta.sequence < MaxSeq
  /\ \E account \in AccountIds, t \in types, id \in TokenIds :
       Remove(p, account, t, id)

VerifyStep(p, types) ==
  \E t \in types, c \in ClientIds, a \in AuthenticatedMethods :
    \E proof \in Proofs(meta, t, now) : Verify(p, t, proof[1], proof[2], c, a)

GetStep(p, types) ==
  \E t \in types, id \in TokenIds, f \in BOOLEAN : Get(p, t, id, f)

GetAllStep(p, types) == \E t \in types : GetAll(p, t)

\* the life of nonces, one request at a time
NextNonce ==
  \/ Tick
  \/ SetNonceStep(1, MaxTokens)
  \/ SetNoncePush(1)
  \/ SetNonceCheck(1)
  \/ SetNonceSweep(1)
  \/ RemoveStep(1, {"nonce"})
  \/ RemoveWrite(1)
  \/ VerifyStep(1, {"nonce"})
  \/ GetStep(1, {"nonce"})
  \/ GetAllStep(1, {"nonce"})
  \/ Sweep(1)

SpecNonce == Init /\ [][NextNonce]_vars

\* the life of the password and of the totp secret, one request at a time
NextSingle ==
  \/ Tick
  \/ SetPasswordStep(1, MaxTokens)
  \/ SetTotpStep(1, MaxTokens)
  \/ SetTotpWrite(1)
  \/ RemoveStep(1, {"password", "totp"})
  \/ RemoveWrite(1)
  \/ VerifyStep(1, {"password", "totp"})
  \/ GetStep(1, {"password", "totp"})
  \/ GetAllStep(1, {"password", "totp"})

SpecSingle == Init /\ [][NextSingle]_vars

\* creation and verification of the three types, one request at a time; with
\* FewTokens tokens created a push never meets a full nonce array
NextVerify ==
  \/ Tick
  \/ SetNonceStep(1, FewTokens)
  \/ SetNoncePush(1)
  \/ SetPasswordStep(1, FewTokens)
  \/ SetTotpStep(1, FewTokens)
  \/ SetTotpWrite(1)
  \/ VerifyStep(1, TOKEN_TYPES)

SpecVerify == Init /\ [][NextVerify]_vars

\* the requests that write the account, interleaved at their reads and
\* writes of the store.  Every request creates nonces; request 1 also
\* verifies, registers a client and sweeps, request 2 also removes
SetNonceConc(p) ==
  /\ SetNonceBegin(p, "", "human", <<>>, "111111", FALSE)
  /\ nextId' <= MaxTokens + 1

ConcStep(p) ==
  \/ SetNonceConc(p)
  \/ SetNoncePush(p)
  \/ SetNonceCheck(p)
  \/ SetNonceSweep(p)
  \/ p = 2 /\ meta.sequence < MaxSeq /\ Remove(p, accountId, "nonce", 0)
  \/ RemoveRead(p)
  \/ RemoveWrite(p)
  \/ p = 1 /\ Verify(p, "nonce",
                    pbkdf2("111111", freshSalt(1), iterations).hash, "",
                    "", <<>>)
  \/ p = 1 /\ meta.sequence < MaxSeq /\ ClientsSet(p, "c1", TRUE, FALSE)
  \/ ClientsRead(p)
  \/ ClientsWrite(p)
  \/ p = 1 /\ Sweep(p)

NextConc == Tick \/ \E p \in Procs : ConcStep(p)

SpecConc == Init /\ [][NextConc]_vars

\* NumProcs calls of set, type nonce, at once, on an account that holds
\* expired nonces (created at time 0) and unexpired ones (created at time
\* ttl - 1), at time ttl; no other request runs and no time passes
heldId(k) == 0 - k

RECURSIVE heldNonces(_, _)
heldNonces(k, nExpired) ==
  IF k = 0 THEN <<>>
  ELSE LET before == heldNonces(k - 1, nExpired)
       IN Append(before,
                 newNonceToken(before, heldId(k), "", "human", <<>>, "111111",
                               IF k <= nExpired THEN 0 ELSE ttl - 1))

InitRace ==
  /\ now = ttl
  /\ \E nExpired \in 0..maxNonceCount :
       \E nLive \in 0..(maxNonceCount - nExpired) :
         meta = [sequence |-> 0,
                 tokens |-> withType(NoTokens, "nonce",
                                     heldNonces(nExpired + nLive, nExpired)),
                 clients |-> NoClients]
  /\ nextId = 1
  /\ pc = [p \in Procs |-> "idle"]
  /\ loc = [p \in Procs |-> NoLoc]
  /\ res = [p \in Procs |-> NoRes]
  /\ used = {}
  /\ events = {}
  /\ promotions = NoPromotions
  /\ recoveryEmail = ""

RaceStep(p) ==
  \/ res[p] = NoRes /\ SetNonceStep(p, MaxTokens)
  \/ SetNoncePush(p)
  \/ SetNonceCheck(p)
  \/ SetNonceSweep(p)

NextRace == \E p \in Procs : RaceStep(p)

SpecRace == InitRace /\ [][NextRace]_vars

\* one call of set, type nonce, by request 1 while request 2 keeps filling
\* the array and removing the nonces, so that request 1's pushes keep failing
RetryStep(p) ==
  \/ /\ p = 1 => res[p] = NoRes
     /\ SetNonceBegin(p, "", "human", <<>>, "111111", FALSE)
     /\ nextId' <= MaxRetryTokens + 1
  \/ SetNoncePush(p)
  \/ SetNonceCheck(p)
  \/ SetNonceSweep(p)
  \/ p = 2 /\ Remove(p, accountId, "nonce", 0)
  \/ RemoveWrite(p)

NextRetry == \E p \in Procs : RetryStep(p)

\* the account holds expired and unexpired nonces at the start and no time
\* passes; an awaited call of the store is always answered, so a request
\* that is inside set goes on
SpecRetry ==
  /\ InitRace
  /\ [][NextRetry]_vars
  /\ WF_vars(SetNoncePush(1) \/ SetNonceCheck(1) \/ SetNonceSweep(1))

\* NumProcs calls of verify, type nonce, at once on an account that holds
\* nonces: every call is made before the store answers any of them
TwiceStep(p) ==
  \/ /\ res[p] = NoRes
     /\ \E c \in ClientIds, a \in AuthenticatedMethods :
          \E proof \in Proofs(meta, "nonce", now) :
            VerifyCall(p, "nonce", proof[1], proof[2], c, a)
  \/ /\ \A q \in Procs : pc[q] = "verify_read" \/ res[q] # NoRes
     /\ VerifyRead(p)

NextTwice == Tick \/ \E p \in Procs : TwiceStep(p)

SpecTwice == InitRace /\ [][NextTwice]_vars

\* NumProcs calls of set, type totp, at once on an account that holds no
\* tokens; no other request runs
TotpRaceStep(p) ==
  \/ res[p] = NoRes /\ SetTotpStep(p, MaxTokens)
  \/ SetTotpWrite(p)

NextTotpRace == Tick \/ \E p \in Procs : TotpRaceStep(p)

SpecTotpRace == Init /\ [][NextTotpRace]_vars

\* creation of the three types with and without notification, one request
\* at a time
SetNotifyStep(p, budget) ==
  /\ \E notify \in BOOLEAN :
       \/ \E i \in NonceInputs :
            SetNonceBegin(p, i[1], i[2], i[3], i[4], notify)
       \/ \E i \in PasswordInputs : SetPassword(p, i[1], i[2], notify)
       \/ \E r \in TotpInputs : SetTotpBegin(p, r, notify)
  /\ nextId' <= budget + 1

NextNotify ==
  \/ Tick
  \/ SetNotifyStep(1, MaxTokens)
  \/ SetNoncePush(1)
  \/ SetNonceCheck(1)
  \/ SetNonceSweep(1)
  \/ SetTotpWrite(1)
  \/ Notify(1)

SpecNotify == Init /\ [][NextNotify]_vars

-----------------------------------------------------------------------------
(* setRecoveryEmail *)

\* brAccount.update({id, patch, sequence}): the patch is applied only if the
\* record still has the sequence that was read, and the sequence moves on
patchAccount(m, sequence) ==
  IF m.sequence = sequence
  THEN [updated |-> TRUE, meta |-> [m EXCEPT !.sequence = sequence + 1]]
  ELSE [updated |-> FALSE, meta |-> m]

recoveryEvent(account, oldRecoveryEmail, newRecoveryEmail, failed) ==
  [name |-> "bedrock-authn-token.recoveryEmail.change", account |-> account,
   email |-> accountEmail, oldRecoveryEmail |-> oldRecoveryEmail,
   newRecoveryEmail |-> newRecoveryEmail, failed |-> failed]

\* the record is read once and the patch is built from it
SetRecoveryEmail(p, account, email, notify) ==
  /\ pc[p] = "idle"
  /\ IF ~assertString(account)
     THEN Return(p, "setRecoveryEmail", "",
                 Error("AssertionError", "accountId (string) is required"))
     ELSE IF ~assertString(email)
     THEN Return(p, "setRecoveryEmail", "",
                 Error("AssertionError", "recoveryEmail (string) is required"))
     ELSE Suspend(p, "recovery_write",
            [op |-> "setRecoveryEmail", account |-> account,
             recoveryEmail |-> email, oldRecoveryEmail |-> recoveryEmail,
             sequence |-> meta.sequence, notify |-> notify])
  /\ UNCHANGED <<now, meta, nextId, used, events, promotions, recoveryEmail>>

\* the patch is applied; what brAccount.update throws is not caught
RecoveryWrite(p) ==
  /\ pc[p] = "recovery_write"
  /\ LET written == patchAccount(meta, loc[p].sequence)
     IN IF written.updated
        THEN /\ meta' = written.meta
             /\ recoveryEmail' = loc[p].recoveryEmail
             /\ IF loc[p].notify
                THEN Suspend(p, "recovery_notify", loc[p])
                ELSE Return(p, "setRecoveryEmail", "", [kind |-> "ok"])
        ELSE /\ UNCHANGED <<meta, recoveryEmail>>
             /\ Return(p, "setRecoveryEmail", "",
                       \* thrown by the account store; its message is
                       \* the store's and is not modelled
                       Error("InvalidStateError", ""))
  /\ UNCHANGED <<now, nextId, used, events, promotions>>

\* the event is emitted; a handler that throws is caught and logged
RecoveryNotify(p) ==
  /\ pc[p] = "recovery_notify"
  /\ \E failed \in BOOLEAN :
       events' = events \cup {recoveryEvent(loc[p].account,
                                            loc[p].oldRecoveryEmail,
                                            loc[p].recoveryEmail, failed)}
  /\ Return(p, "setRecoveryEmail", "", [kind |-> "ok"])
  /\ UNCHANGED <<now, meta, nextId, used, promotions, recoveryEmail>>

\* two requests on the same account at once: either sets the recovery
\* email, the second also registers a client
RecoveryEmails == {"", "r1", "r2"}

RecoveryStep(p) ==
  \/ /\ meta.sequence < MaxClientSeq
     /\ \E email \in RecoveryEmails, notify \in BOOLEAN :
          SetRecoveryEmail(p, accountId, email, notify)
  \/ RecoveryWrite(p)
  \/ RecoveryNotify(p)
  \/ /\ p = 2
     /\ meta.sequence < MaxClientSeq
     /\ ClientsSet(p, "c1", TRUE, FALSE)
  \/ ClientsRead(p)
  \/ ClientsWrite(p)

NextRecovery == \E p \in Procs : RecoveryStep(p)

SpecRecovery == Init /\ [][NextRecovery]_vars

\* two requests on the same account at once, each made once: the first
\* registers a client, the second creates a password or a totp token
LostStep(p) ==
  \/ /\ p = 1
     /\ res[p] = NoRes
     /\ \E clientId \in {"c1", "c2"} : ClientsSet(p, clientId, TRUE, FALSE)
  \/ ClientsRead(p)
  \/ ClientsWrite(p)
  \/ /\ p = 2
     /\ res[p] = NoRes
     /\ \/ \E i \in PasswordInputs : SetPassword(p, i[1], i[2], FALSE)
        \/ \E r \in TotpInputs : SetTotpBegin(p, r, FALSE)
  \/ SetTotpWrite(p)

NextLost == Tick \/ \E p \in Procs : LostStep(p)

SpecLost == Init /\ [][NextLost]_vars

\* an account that holds tokens written by an earlier version: bcrypt nonces
\* and a bcrypt password, each with a salt, no hashParameters and the
\* prefixed fast hash of its bcrypt hash stored as a base64 string
legacySalt == "$2b$10$salt"

bcryptHash(challenge, salt) == salt \o "." \o challenge

legacyChallenge(k) == "L" \o ToString(k)

legacySha256(hash) ==
  [sha256 |-> _prefixedHash(hash).sha256, format |-> "base64"]

legacyNonce(k, expires) ==
  [id |-> heldId(k), authenticationMethod |-> "nonce",
   requiredAuthenticationMethods |-> <<>>, salt |-> legacySalt,
   sha256 |-> legacySha256(bcryptHash(legacyChallenge(k), legacySalt)),
   expires |-> expires]

legacyPassword ==
  [id |-> heldId(maxNonceCount + 1), authenticationMethod |-> "password",
   requiredAuthenticationMethods |-> <<>>, salt |-> legacySalt,
   sha256 |-> legacySha256(bcryptHash("pw1", legacySalt))]

LegacyExpiries == {1, MaxTime + 1}

LegacyProofs ==
  {bcryptHash(legacyChallenge(k), legacySalt) : k \in 1..maxNonceCount}
    \cup {bcryptHash("pw1", legacySalt)}

InitLegacy ==
  /\ now = 0
  /\ \E n \in 0..maxNonceCount, withPassword \in BOOLEAN :
       \E expiries \in [1..n -> LegacyExpiries] :
         LET nonces == [k \in 1..n |-> legacyNonce(k, expiries[k])]
             held == IF n = 0 THEN NoTokens
                     ELSE withType(NoTokens, "nonce", nonces)
         IN meta = [sequence |-> 0,
                    tokens |-> IF withPassword
                               THEN withType(held, "password", legacyPassword)
                               ELSE held,
                    clients |-> NoClients]
  /\ nextId = 1
  /\ pc = [p \in Procs |-> "idle"]
  /\ loc = [p \in Procs |-> NoLoc]
  /\ res = [p \in Procs |-> NoRes]
  /\ used = {}
  /\ events = {}
  /\ promotions = NoPromotions
  /\ recoveryEmail = ""

LegacyVerify(p) ==
  \E type \in {"nonce", "password"}, proof \in LegacyProofs :
    Verify(p, type, proof, "", "", <<>>)

NextLegacy ==
  \/ Tick
  \/ SetNonceStep(1, MaxTokens)
  \/ SetNoncePush(1)
  \/ SetNonceCheck(1)
  \/ SetNonceSweep(1)
  \/ GetAllStep(1, {"nonce", "password"})
  \/ LegacyVerify(1)

SpecLegacy == InitLegacy /\ [][NextLegacy]_vars

\* nonces of one human challenge, the n-th created for the client clientOf(n)
\* ("" for no client), and verify called for every client; one request at a
\* time
BindingClients == {"", "c1", "c2"}

clientOf(n) == IF n = 2 THEN "" ELSE IF n = 3 THEN "c2" ELSE "c1"

BindingSet(p, budget) ==
  /\ SetNonceBegin(p, clientOf(nextId), "human", <<>>, "111111", FALSE)
  /\ nextId' <= budget + 1

BindingVerify(p) ==
  \E c \in BindingClients : \E proof \in Proofs(meta, "nonce", now) :
    Verify(p, "nonce", proof[1], proof[2], c, <<>>)

NextBinding ==
  \/ Tick
  \/ BindingSet(1, MaxTokens)
  \/ SetNoncePush(1)
  \/ SetNonceCheck(1)
  \/ SetNonceSweep(1)
  \/ BindingVerify(1)

SpecBinding == Init /\ [][NextBinding]_vars

\* serialized hashes a caller may pass to set, type password, each with what
\* it is by construction: of the supported algorithm with enough iterations,
\* with too few iterations, of another algorithm or of no algorithm, or with
\* a parameter section that is not the single integer i
PhcInputs ==
  {<<"pw1", "sp1", iterations>>, <<"pw2", "sp2", minIterations>>,
   <<"pw1", "", iterations + 1>>}

HashCases ==
  {<<pbkdf2(x[1], x[2], x[3]).hash, "valid">> : x \in PhcInputs} \cup
  {<<pbkdf2("pw1", "sp1", minIterations - 1).hash, "low">>,
   <<"$pbkdf2-sha512$i=1$sp1$x", "low">>,
   <<"$bcrypt$i=100000$sp1$x", "unsupported">>,
   <<"pw1", "unsupported">>,
   <<"$pbkdf2-sha512$i=abc$sp1$x", "malformed">>,
   <<"$pbkdf2-sha512$i=100000,l=64$sp1$x", "malformed">>,
   <<"$pbkdf2-sha512$l=64$sp1$x", "malformed">>,
   <<"$pbkdf2-sha512$$sp1$x", "malformed">>,
   <<"$pbkdf2-sha512", "malformed">>}

\* the life of the password under every kind of serialized hash, one request
\* at a time
PasswordStep(p, budget) ==
  /\ \E c \in HashCases, r \in TotpInputs : SetPassword(p, c[1], r, FALSE)
  /\ nextId' <= budget + 1

NextPassword ==
  \/ PasswordStep(1, MaxTokens)
  \/ GetStep(1, {"password"})
  \/ VerifyStep(1, {"password"})

SpecPassword == Init /\ [][NextPassword]_vars

\* the operations called with every combination of accountId and email,
\* one request at a time
ReferenceIds == {"", accountId}
ReferenceEmails == {"", accountEmail}

ReferenceStep(p) ==
  \E id \in ReferenceIds, email \in ReferenceEmails :
    \/ /\ \E type \in {"nonce", "password"}, hash \in PasswordHashes :
            SetBy(p, id, email, type, hash)
       /\ nextId' <= FewTokens + 1
    \/ \E type \in {"nonce", "password"}, f \in BOOLEAN :
         GetBy(p, id, email, type, 0, f)
    \/ \E type \in {"nonce", "password"} : GetAllBy(p, id, email, type)
    \/ \E hash \in PasswordHashes : VerifyBy(p, id, email, "password", hash)
    \/ /\ meta.sequence < MaxSeq
       /\ ClientsSetBy(p, id, email, "c1", TRUE)
    \/ IsRegistered(p, id, email, "c1")

NextReference ==
  \/ ReferenceStep(1)
  \/ SetNoncePush(1)
  \/ ClientsRead(1)
  \/ ClientsWrite(1)

SpecReference == Init /\ [][NextReference]_vars

\* the registration of one client on the account, one request at a time,
\* and lookups of it and of the client of the other account, by account id
\* and by email
AccountRefs ==
  {<<accountId, "">>, <<"", accountEmail>>,
   <<otherAccountId, "">>, <<"", otherAccountEmail>>,
   <<"unknown", "">>, <<"", "unknown@example.com">>}

ClientsSetStep(p, clientIds) ==
  /\ meta.sequence < MaxClientSeq
  /\ \E c \in clientIds, authenticated \in BOOLEAN, notify \in BOOLEAN :
       ClientsSet(p, c, authenticated, notify)

IsRegisteredStep(p, clientIds) ==
  \E ref \in AccountRefs, c \in clientIds :
    IsRegistered(p, ref[1], ref[2], c)

\* NumProcs calls of clients.set with authenticated = true for client "c1" of
\* the account, at once; no other request runs
PromoteStep(p) ==
  \/ /\ res[p] = NoRes
     /\ \E notify \in BOOLEAN : ClientsSet(p, "c1", TRUE, notify)
  \/ ClientsRead(p)
  \/ ClientsWrite(p)
  \/ ClientsNotify(p)

NextPromote == Tick \/ \E p \in Procs : PromoteStep(p)

SpecPromote == Init /\ [][NextPromote]_vars

\* one call of remove or of clients.set by request 1, whose every conditional
\* write meets a concurrent modification: request 2 registers a client each
\* time request 1 has read the record and not yet written it
StormStep(p) ==
  \/ /\ p = 1
     /\ res[p] = NoRes
     /\ nextId = 1
     /\ \E i \in PasswordInputs : SetPassword(p, i[1], i[2], FALSE)
  \/ /\ p = 1
     /\ IF res[p] = NoRes THEN TRUE ELSE res[p].call = "set"
     /\ \/ ClientsSet(p, "c1", FALSE, FALSE)
        \/ Remove(p, accountId, "password", 0)
  \/ /\ p = 2
     /\ pc[1] \in {"client_write", "remove_write"}
     /\ loc[1].meta.sequence = meta.sequence + 1
     /\ meta.sequence < MaxStorm
     /\ ClientsSet(p, "c2", FALSE, FALSE)
  \/ ClientsRead(p)
  \/ ClientsWrite(p)
  \/ p = 1 /\ RemoveRead(p)
  \/ p = 1 /\ RemoveWrite(p)

NextStorm == \E p \in Procs : StormStep(p)

SpecStorm == Init /\ [][NextStorm]_vars

\* the expired-token sweep, called directly and from set, on an account that
\* starts with legacy tokens and on which clients are registered; one
\* request at a time
NextSweep ==
  \/ Tick
  \/ SetNonceStep(1, MaxTokens)
  \/ SetNoncePush(1)
  \/ SetNonceCheck(1)
  \/ SetNonceSweep(1)
  \/ Sweep(1)
  \/ ClientsSetStep(1, {"c1"})
  \/ ClientsRead(1)
  \/ ClientsWrite(1)
  \/ ClientsNotify(1)

SpecSweep == InitLegacy /\ [][NextSweep]_vars

\* the reads of the tokens of an account that starts with legacy tokens,
\* as time passes
NextRead ==
  \/ Tick
  \/ GetStep(1, {"nonce", "password"})
  \/ GetAllStep(1, {"nonce", "password"})

SpecRead == InitLegacy /\ [][NextRead]_vars

NextClients ==
  \/ ClientsSetStep(1, {"c1"})
  \/ ClientsRead(1)
  \/ ClientsWrite(1)
  \/ ClientsNotify(1)
  \/ IsRegisteredStep(1, {"c1", "c2"})

SpecClients == Init /\ [][NextClients]_vars

\* checkAuthenticationRequirements alone, applied to a requirement list of
\* up to MaxSlots slots over MethodIds and a list of distinct authenticated
\* identifiers, both chosen by the initial state
MethodIds == {"a", "b", "c"}

RequirementLists == UNION {[1..n -> SUBSET MethodIds] : n \in 0..MaxSlots}

AuthenticatedLists ==
  {s \in UNION {[1..n -> MethodIds] : n \in 0..Cardinality(MethodIds)} :
     \A i, j \in 1..Len(s) : s[i] = s[j] => i = j}

InitMatch ==
  /\ now = 0
  /\ meta = [sequence |-> 0, tokens |-> NoTokens, clients |-> NoClients]
  /\ nextId = 1
  /\ pc = [p \in Procs |-> "idle"]
  /\ \E r \in RequirementLists, a \in AuthenticatedLists :
       loc = [p \in Procs |->
                IF p = 1
                THEN [op |-> "match", requiredAuthenticationMethods |-> r,
                      authenticatedMethods |-> a]
                ELSE NoLoc]
  /\ res = [p \in Procs |-> NoRes]
  /\ used = {}
  /\ events = {}
  /\ promotions = NoPromotions
  /\ recoveryEmail = ""

CheckRequirements(p) ==
  /\ pc[p] = "idle"
  /\ loc[p].op = "match"
  /\ res[p] = NoRes
  /\ res' = [res EXCEPT ![p] =
               [kind |-> "ok",
                met |-> checkAuthenticationRequirements(
                          loc[p].requiredAuthenticationMethods,
                          loc[p].authenticatedMethods)]]
  /\ UNCHANGED <<now, meta, nextId, pc, loc, used, events, promotions, recoveryEmail>>

NextMatch == \E p \in Procs : CheckRequirements(p)

SpecMatch == InitMatch /\ [][NextMatch]_vars

-----------------------------------------------------------------------------
(* Properties *)

Min(a, b) == IF a <= b THEN a ELSE b

storedNonces == tokenList(meta, "nonce")

\* the stored nonces that are unexpired at time t
unexpiredNonces(t) ==
  {k \in 1..Len(storedNonces) :
     ~isLegacy(storedNonces[k]) /\ storedNonces[k].expires > t}

\* C1: for every nonce created by set, verify with the correct proof returns
\* the account identity exactly once: once verify has returned the identity
\* for a nonce, no further verify, whatever proof it presents, returns the
\* identity for that nonce again.
C1_OneShot ==
  \A id \in used, c \in ClientIds, a \in AuthenticatedMethods :
    \A proof \in Proofs(meta, "nonce", now) :
      LET out == verifyResult(meta, "nonce", proof[1], proof[2], c, a, now)
      IN ~(out.kind = "ok" /\ out.tokenId = id)

\* C2: in every reachable state, under any interleaving of set, remove,
\* verify, clients.set and the expired-token sweep, the stored nonce array
\* has length at most maxNonceCount.
C2_NonceCountBounded == Len(storedNonces) <= maxNonceCount

\* C2, its case: the array is full and a push has been refused at the bound
\* while another request is between its read and its write of the account
C2_Witness ==
  /\ Len(storedNonces) = maxNonceCount
  /\ \E p, q \in Procs :
       /\ pc[p] = "nonce_check"
       /\ pc[q] \in {"remove_write", "client_write"}

\* C3: if NumProcs calls of set, type nonce, run concurrently against an
\* account that holds n unexpired nonces, with no other request and no nonce
\* expiring meanwhile, then once all have ended exactly
\* min(NumProcs, maxNonceCount - n) of them have succeeded, every other one
\* has raised NotAllowedError, and the array holds
\* min(n + NumProcs, maxNonceCount) unexpired nonces.
C3_RaceOutcome ==
  LET n == Cardinality({k \in unexpiredNonces(now) : storedNonces[k].id < 0})
      succeeded == {p \in Procs : res[p].kind = "ok"}
  IN (\A p \in Procs : pc[p] = "idle" /\ res[p] # NoRes) =>
       /\ Cardinality(succeeded) = Min(NumProcs, maxNonceCount - n)
       /\ \A p \in Procs \ succeeded :
            res[p] = called("set", "nonce",
                            Error("NotAllowedError", tooManyMessage))
       /\ Cardinality(unexpiredNonces(now)) = Min(n + NumProcs, maxNonceCount)

\* C4: when the account already holds maxNonceCount pending, unexpired
\* nonces, set, type nonce, raises NotAllowedError with a message that cites
\* the configured maximum, returns no challenge and leaves the stored nonce
\* array unchanged.
C4_FullRejects ==
  [][\A p \in Procs, i \in NonceInputs :
       (/\ Cardinality(unexpiredNonces(now)) >= maxNonceCount
        /\ SetNonceBegin(p, i[1], i[2], i[3], i[4], FALSE))
         => /\ res'[p] =
                 called("set", "nonce",
                        Error("NotAllowedError",
                              "No more than " \o ToString(maxNonceCount)
                                \o " tokens can be pending at once."))
            /\ meta' = meta]_vars

\* C4, its case: a set has been rejected with the array full of unexpired
\* nonces
C4_Witness ==
  /\ Cardinality(unexpiredNonces(now)) = maxNonceCount
  /\ \E p \in Procs :
       res[p] = called("set", "nonce", Error("NotAllowedError", tooManyMessage))

\* the value verify takes from a proof <<hash, challenge>>
proofValue(proof) == IF proof[1] # "" THEN proof[1] ELSE proof[2]

\* C5: verify never returns the account identity for a nonce at or after
\* that nonce's expires timestamp, and a proof that matches an expired nonce
\* raises NotFoundError ('Authentication token has expired.').
C5_ExpiredNeverVerifies ==
  \A c \in ClientIds, a \in AuthenticatedMethods :
    \A proof \in Proofs(meta, "nonce", now) :
      LET out == verifyResult(meta, "nonce", proof[1], proof[2], c, a, now)
          expiredMatch ==
            \E k \in 1..Len(storedNonces) :
              /\ now >= storedNonces[k].expires
              /\ storedNonces[k].sha256 = fastHash(c, proofValue(proof), FALSE)
      IN /\ out.kind = "ok" =>
              \A k \in 1..Len(storedNonces) :
                storedNonces[k].id = out.tokenId
                  => now < storedNonces[k].expires
         /\ expiredMatch =>
              out = NotFound("Authentication token has expired.")

\* C5, its case: verify has thrown for a proof that matches a nonce stored
\* at its expires timestamp
C5_Witness ==
  /\ \E k \in 1..Len(storedNonces) : now = storedNonces[k].expires
  /\ res[1] = called("verify", "nonce",
                     NotFound("Authentication token has expired."))

\* C6: if the account already holds a totp token, a further set, type totp,
\* raises DuplicateError and leaves the stored secret unchanged.
C6_TotpDuplicate ==
  [][\A p \in Procs, r \in TotpInputs :
       ("totp" \in DOMAIN meta.tokens /\ SetTotpBegin(p, r, FALSE))
         => /\ res'[p].kind = "error"
            /\ res'[p].name = "DuplicateError"
            /\ "totp" \in DOMAIN meta'.tokens
            /\ meta'.tokens["totp"] = meta.tokens["totp"]]_vars

\* C6, its case: a second set has been rejected while the first secret is
\* stored
C6_Witness ==
  /\ "totp" \in DOMAIN meta.tokens
  /\ \E p \in Procs :
       /\ res[p].kind = "error"
       /\ res[p].name = "DuplicateError"
       /\ res[p].call = "set"

Singletons == {"password", "totp"}

\* C7: set, type password, always replaces: after set(password, h1) followed
\* by set(password, h2) with h1 different from h2, the account holds exactly
\* one password token, verify with h2 returns the account identity and
\* verify with h1 returns false (the second set does not throw and so
\* takes a new token id; verify is called without a clientId and with
\* authenticated methods that meet the token's requirements).
C7_PasswordReplaces ==
  [][\A p \in Procs, i \in PasswordInputs, h1 \in PasswordHashes,
        a \in AuthenticatedMethods :
       (/\ "password" \in DOMAIN meta.tokens
        /\ nextId' = nextId + 1
        /\ meta.tokens["password"].sha256 = _sha256(h1)
        /\ h1 # i[1]
        /\ checkAuthenticationRequirements(i[2], a)
        /\ SetPassword(p, i[1], i[2], FALSE))
         => /\ Len(getAll(meta', "password", now').allTokens) = 1
            /\ verifyResult(meta', "password", i[1], "", "", a, now').kind
                 = "ok"
            /\ verifyResult(meta', "password", h1, "", "", a, now')
                 = [kind |-> "false"]]_vars

\* C7, its case: two passwords have been set, no token has been removed, and
\* verify has returned false
C7_Witness ==
  /\ DOMAIN meta.tokens = {"password"}
  /\ meta.tokens["password"].id = 2
  /\ meta.sequence = 0
  /\ res[1] = called("verify", "password", [kind |-> "false"])

\* the credential of this type exists, so that verify finds a token
credentialExists(type) ==
  IF type = "nonce" THEN Len(storedNonces) > 0 ELSE type \in DOMAIN meta.tokens

\* the authenticated methods meet the requirements of the stored password or
\* totp token (a nonce that does not match has no requirements to meet)
requirementsMet(type, a) ==
  \/ type = "nonce"
  \/ "requiredAuthenticationMethods" \notin DOMAIN meta.tokens[type]
  \/ checkAuthenticationRequirements(
       meta.tokens[type].requiredAuthenticationMethods, a)

\* the proof is what verify expects for the type (a totp proof is a
\* challenge, never a hash) and matches no stored credential of the type
doesNotMatch(type, c, proof, t) ==
  IF type = "nonce"
  THEN \A k \in 1..Len(storedNonces) :
         storedNonces[k].sha256 # fastHash(c, proofValue(proof), FALSE)
  ELSE IF type = "totp"
  THEN proof[1] = "" /\ proof[2] # totpGenerate(meta.tokens[type].secret, t)
  ELSE meta.tokens[type].sha256 # fastHash(c, proofValue(proof), FALSE)

mismatchCase(type, c, a, proof) ==
  /\ credentialExists(type)
  /\ requirementsMet(type, a)
  /\ doesNotMatch(type, c, proof, now)

\* C8: when a credential of the requested type exists and its required
\* authentication methods are met, verify with a proof that does not match
\* returns the boolean false, never an error, and leaves the credential map
\* unchanged: no step that changes the account is such a verify.
C8_MismatchIsFalse ==
  /\ [](\A type \in TOKEN_TYPES, c \in ClientIds, a \in AuthenticatedMethods :
          \A proof \in Proofs(meta, type, now) :
            mismatchCase(type, c, a, proof)
              => verifyResult(meta, type, proof[1], proof[2], c, a, now)
                   = [kind |-> "false"])
  /\ [][\/ meta' = meta
        \/ \A p \in Procs, type \in TOKEN_TYPES, c \in ClientIds,
              a \in AuthenticatedMethods :
             \A proof \in Proofs(meta, type, now) :
               ~(/\ mismatchCase(type, c, a, proof)
                 /\ Verify(p, type, proof[1], proof[2], c, a))]_vars

\* C8, its case: a password is stored and verify of a password has returned
\* false
C8_Witness ==
  /\ "password" \in DOMAIN meta.tokens
  /\ res[1] = called("verify", "password", [kind |-> "false"])

\* the proofs that match the stored password or totp token at time t
correctProofs(type, t) ==
  IF type = "password"
  THEN {<<h, "">> : h \in {g \in PasswordHashes :
                             meta.tokens[type].sha256 = _sha256(g)}}
  ELSE {<<"", totpGenerate(meta.tokens[type].secret, t)>>}

\* C9: a password or totp credential stays active across verifications:
\* verify never changes or removes it (no step that changes the account is a
\* verify of these types), so while it is stored a correct proof succeeds;
\* a remove that succeeds deletes it, and while none is stored verify and get
\* for that type raise NotFoundError.
C9_ActiveUntilRemoved ==
  /\ [](\A type \in Singletons, a \in AuthenticatedMethods :
          IF type \in DOMAIN meta.tokens
          THEN requirementsMet(type, a) =>
                 \A proof \in correctProofs(type, now) :
                   verifyResult(meta, type, proof[1], proof[2], "", a,
                                now).kind = "ok"
          ELSE /\ \A c \in ClientIds :
                    \A proof \in Proofs(meta, type, now) :
                      (type = "totp" => proof[1] = "") =>
                        verifyResult(meta, type, proof[1], proof[2], c, a,
                                     now)
                          = NotFound("Authentication token not found.")
               /\ \A f \in BOOLEAN :
                    get(meta, type, 0, f, now)
                      = NotFound("Authentication token not found."))
  /\ [][/\ \/ meta' = meta
           \/ \A p \in Procs, type \in Singletons, c \in ClientIds,
                 a \in AuthenticatedMethods :
                \A proof \in Proofs(meta, type, now) :
                  ~Verify(p, type, proof[1], proof[2], c, a)
        /\ \A p \in Procs :
             (/\ pc[p] = "remove_write"
              /\ loc[p].type \in Singletons
              /\ RemoveWrite(p)
              /\ res'[p].kind = "ok")
               => loc[p].type \notin DOMAIN meta'.tokens]_vars

\* C9, its case: a remove of the password has succeeded and no password is
\* stored
C9_Witness ==
  /\ "password" \notin DOMAIN meta.tokens
  /\ res[1] = called("remove", "password", [kind |-> "ok"])

\* C10: a remove of a nonce by id that returns successfully removes exactly
\* the stored nonce of that id: afterwards get of that id raises
\* NotFoundError and every other nonce is still stored, unmodified and in
\* the same order.
C10_RemoveById ==
  [][\A p \in Procs :
       (/\ pc[p] = "remove_write"
        /\ loc[p].type = "nonce"
        /\ loc[p].id # 0
        /\ RemoveWrite(p)
        /\ res'[p].kind = "ok")
         => LET Other(t) == t.id # loc[p].id
            IN /\ tokenList(meta', "nonce")
                    = SelectSeq(tokenList(meta, "nonce"), Other)
               /\ get(meta', "nonce", loc[p].id, TRUE, now').kind
                    = "error"]_vars

\* nothing matches a remove of this target in the account record m: the
\* account does not exist, it holds no credential of the type, or no stored
\* token has the given id (id 0: no id given)
nothingMatches(m, account, type, id) ==
  \/ ~accountExists(account)
  \/ ~hasTokens(m, type)
  \/ isArray(type) /\ Len(m.tokens[type]) = 0
  \/ id # 0 /\ isArray(type) /\ ~hasId(m.tokens[type], id)
  \/ id # 0 /\ ~isArray(type) /\ m.tokens[type].id # id

\* C11: remove raises NotFoundError whenever nothing matches, and the account
\* record, sequence number included, is then unchanged; and after a remove
\* that returned successfully nothing matches the same target any more, so a
\* second remove of it fails with NotFoundError.
C11_RemoveNotFound ==
  [][/\ \A p \in Procs, account \in AccountIds, type \in TOKEN_TYPES,
           id \in TokenIds :
          (/\ pc[p] = "idle"
           /\ nothingMatches(meta, account, type, id)
           /\ Remove(p, account, type, id))
            => /\ res'[p] = called("remove", type,
                                  NotFound(" Account or token not found."))
               /\ meta' = meta
     /\ \A p \in Procs :
          (/\ pc[p] = "remove_write"
           /\ loc[p].caller = "remove"
           /\ RemoveWrite(p)
           /\ res'[p].kind = "ok")
            => nothingMatches(meta', accountId, loc[p].type, loc[p].id)]_vars

\* every slot of the requirement list holds an authenticated identifier
everySlotDischarged(required, authenticated) ==
  \A i \in 1..Len(required) :
    \E k \in 1..Len(authenticated) : authenticated[k] \in required[i]

\* the token has requirements that the authenticated methods do not satisfy
requirementsUnmet(token, a) ==
  /\ "requiredAuthenticationMethods" \in DOMAIN token
  /\ ~everySlotDischarged(token.requiredAuthenticationMethods, a)

\* the stored tokens of the type that a verify with this proof is about: the
\* password or totp token, or the nonces whose fast hash the proof matches
addressedTokens(type, c, proof) ==
  IF type = "nonce"
  THEN {storedNonces[k] :
          k \in {j \in 1..Len(storedNonces) :
                   storedNonces[j].sha256
                     = fastHash(c, proofValue(proof), FALSE)}}
  ELSE IF type \in DOMAIN meta.tokens THEN {meta.tokens[type]} ELSE {}

\* a proof of the form verify takes for the type: a totp proof is a challenge
wellFormed(type, proof) == type = "totp" => proof[1] = ""

notAllowed == Error("NotAllowedError", dependenciesNotMet)

hasExpired(token) == "expires" \in DOMAIN token /\ token.expires <= now

\* C12, as stated: verify never returns the account identity for a token
\* whose requiredAuthenticationMethods are not satisfied by the supplied
\* authenticatedMethods: it then raises NotAllowedError, for every token type
\* and whatever proof is presented.
C12_UnmetIsNotAllowed ==
  \A type \in TOKEN_TYPES, c \in ClientIds, a \in AuthenticatedMethods :
    \A proof \in {q \in Proofs(meta, type, now) : wellFormed(type, q)} :
      LET addressed == addressedTokens(type, c, proof)
      IN (addressed # {} /\ \A token \in addressed :
                              requirementsUnmet(token, a))
           => verifyResult(meta, type, proof[1], proof[2], c, a, now)
                = notAllowed

\* C12, amended: verify never returns the account identity for a token whose
\* requirements are not satisfied; it raises NotAllowedError then, for every
\* token type and whatever proof is presented, unless the token is a nonce
\* that has expired, for which it raises NotFoundError.
C12_UnmetNeverVerifies ==
  \A type \in TOKEN_TYPES, c \in ClientIds, a \in AuthenticatedMethods :
    \A proof \in {q \in Proofs(meta, type, now) : wellFormed(type, q)} :
      LET addressed == addressedTokens(type, c, proof)
          out == verifyResult(meta, type, proof[1], proof[2], c, a, now)
      IN /\ out.kind = "ok" =>
              \A token \in addressed :
                token.id = out.tokenId => ~requirementsUnmet(token, a)
         /\ (addressed # {} /\ \A token \in addressed :
                                 requirementsUnmet(token, a))
              => IF \A token \in addressed : hasExpired(token)
                 THEN out = NotFound("Authentication token has expired.")
                 ELSE IF \A token \in addressed : ~hasExpired(token)
                 THEN out = notAllowed
                 ELSE out \in {notAllowed,
                               NotFound("Authentication token has expired.")}

\* C12, its case: verify has raised NotAllowedError for a stored password or
\* totp token whose requirements the empty list does not satisfy
C12_Witness ==
  /\ \E type \in DOMAIN meta.tokens \ {"nonce"} :
       /\ requirementsUnmet(meta.tokens[type], <<>>)
       /\ res[1] = called("verify", type, notAllowed)

\* no identifier occurs in more than one slot of the requirement list
slotsDisjoint(required) ==
  \A i, j \in 1..Len(required) :
    i # j => required[i] \cap required[j] = {}

\* C13: for every requirement list in which no identifier occurs in more than
\* one slot and every list of distinct authenticated identifiers,
\* checkAuthenticationRequirements returns true iff every slot is discharged;
\* [[a,b],c] against [b,c] is true and against [b] is false, and an empty
\* requirement list is always satisfied.
C13_MatcherCorrect ==
  LET required == loc[1].requiredAuthenticationMethods
      authenticated == loc[1].authenticatedMethods
  IN (loc[1].op = "match" /\ res[1] # NoRes) =>
       /\ slotsDisjoint(required) =>
            (res[1].met <=> everySlotDischarged(required, authenticated))
       /\ (required = <<{"a", "b"}, {"c"}>> /\ authenticated = <<"b", "c">>)
            => res[1].met
       /\ (required = <<{"a", "b"}, {"c"}>> /\ authenticated = <<"b">>)
            => ~res[1].met
       /\ required = <<>> => res[1].met

\* C13, its case: [[a,b],c] has been matched against [b,c] and found met
C13_Witness ==
  /\ loc[1].op = "match"
  /\ loc[1].requiredAuthenticationMethods = <<{"a", "b"}, {"c"}>>
  /\ loc[1].authenticatedMethods = <<"b", "c">>
  /\ res[1] # NoRes
  /\ res[1].met

\* the account stores the client as authenticated
storedAuthenticated(m, clientId) ==
  /\ clientKey(clientId) \in DOMAIN m.clients
  /\ m.clients[clientKey(clientId)].authenticated

\* C14: clients.set with authenticated = true for a client that is already
\* stored as authenticated raises DuplicateError, emits a warning client
\* event when notify is on (and no event when it is off), and leaves the
\* account record unchanged.
C14_DuplicateIsWarning ==
  [][/\ \A p \in Procs, c \in ClientIds, notify \in BOOLEAN :
          (/\ pc[p] = "idle"
           /\ storedAuthenticated(meta, c)
           /\ ClientsSet(p, c, TRUE, notify))
            => /\ meta' = meta
               /\ events' = events
               /\ IF notify
                  THEN pc'[p] = "client_notify" /\ loc'[p].warning
                  ELSE res'[p] = called("clients.set", "",
                                        alreadyAuthenticated)
     /\ \A p \in Procs :
          (/\ pc[p] = "client_notify"
           /\ loc[p].warning
           /\ ClientsNotify(p))
            => /\ meta' = meta
               /\ res'[p] = called("clients.set", "", alreadyAuthenticated)
               /\ \E failed \in BOOLEAN :
                    events' = events \cup
                      {clientEvent("warning", loc[p].clientId, failed)}]_vars

\* C14, its case: the client is stored as authenticated, a warning event
\* has been emitted and the call has raised DuplicateError
C14_Witness ==
  /\ storedAuthenticated(meta, "c1")
  /\ \E failed \in BOOLEAN : clientEvent("warning", "c1", failed) \in events
  /\ res[1] = called("clients.set", "", alreadyAuthenticated)

\* C15: in any sequence of clients.set calls for one account and client, the
\* client is promoted to authenticated exactly once: at most one call with
\* authenticated = true completes without DuplicateError.
C15_PromotedOnce == \A c \in DOMAIN promotions : promotions[c] <= 1

\* the record of the store that an account reference <<id, email>> names
namedRecords(ref) ==
  {r \in accountRecords(meta) :
     (ref[1] # "" /\ r.id = ref[1]) \/ (ref[1] = "" /\ r.email = ref[2])}

\* C16: isRegistered returns registered = true iff the account exists and
\* stores an entry under the hash of the clientId with authenticated = true;
\* it returns false, not an error, for an unknown client, for a client
\* registered only on another account, for an entry stored with
\* authenticated = false and for an account that does not exist, whether the
\* account is addressed by id or by email.
C16_IsRegistered ==
  \A ref \in AccountRefs, c \in {"c1", "c2"} :
    LET out == isRegisteredFor(meta, ref[1], ref[2], c)
        key == clientKey(c)
    IN /\ out.kind = "ok"
       /\ out.registered <=>
            \E r \in namedRecords(ref) :
              /\ key \in DOMAIN r.meta.clients
              /\ r.meta.clients[key].authenticated
       /\ (\A r \in namedRecords(ref) : key \notin DOMAIN r.meta.clients)
            => out = [kind |-> "ok", registered |-> FALSE]
       /\ (\E r \in namedRecords(ref) :
              /\ key \in DOMAIN r.meta.clients
              /\ ~r.meta.clients[key].authenticated)
            => out = [kind |-> "ok", registered |-> FALSE]

\* C16, its case: the client is stored on the account with authenticated =
\* false and the last lookup has returned registered = false
C16_Witness ==
  /\ clientKey("c1") \in DOMAIN meta.clients
  /\ ~meta.clients[clientKey("c1")].authenticated
  /\ res[1] = called("clients.isRegistered", "",
                     [kind |-> "ok", registered |-> FALSE])

\* the account stores the token of this type and id
tokenStored(m, type, id) ==
  IF type = "nonce" THEN hasId(tokenList(m, "nonce"), id)
  ELSE type \in DOMAIN m.tokens /\ m.tokens[type].id = id

\* C17: a failure of the notifier during set with notify on is never
\* propagated: set still returns the created token's result and the token
\* stays stored; the notification is attempted only after the token was
\* persisted, and never for a set whose mutation failed.
C17_NotifyBestEffort ==
  [][/\ \A p \in Procs :
          (pc[p] = "notify" /\ Notify(p))
            => /\ res'[p] = called("set", loc[p].type, loc[p].result)
               /\ res'[p].kind = "ok"
               /\ meta' = meta
               /\ tokenStored(meta', loc[p].type, loc[p].result.id)
     /\ events' # events
          => \E p \in Procs :
               /\ pc[p] = "notify"
               /\ tokenStored(meta, loc[p].type, loc[p].result.id)
               /\ \E failed \in BOOLEAN :
                    events' = events \cup {setEvent(loc[p].result, failed)}
     /\ \A p \in Procs :
          (/\ pc'[p] = "idle"
           /\ pc[p] # "idle"
           /\ res'[p].call = "set"
           /\ res'[p].kind = "error")
            => events' = events /\ pc[p] # "notify"
     /\ \A p \in Procs :
          (pc[p] = "idle" /\ pc'[p] = "idle" /\ res'[p] # res[p])
            => events' = events]_vars

\* C17, its case: the notifier has failed for a token that is stored, and
\* set has returned that token's result
C17_Witness ==
  \E e \in events :
    /\ e.failed
    /\ tokenStored(meta, e.token.type, e.token.id)
    /\ res[1].kind = "ok"
    /\ res[1].call = "set"
    /\ res[1].id = e.token.id

\* C18: every successful credential mutation (set of any type, remove, the
\* sweep of expired tokens, clients.set) increases the account's sequence
\* number by exactly 1, and an operation that fails leaves it unchanged.
C18_SequenceCounts ==
  [][/\ (meta'.tokens # meta.tokens \/ meta'.clients # meta.clients)
          => meta'.sequence = meta.sequence + 1
     /\ meta'.sequence # meta.sequence
          => /\ meta'.sequence = meta.sequence + 1
             /\ (meta'.tokens # meta.tokens \/ meta'.clients # meta.clients)
     /\ \A p \in Procs :
          (res'[p] # res[p] /\ res'[p].kind = "error")
            => meta'.sequence = meta.sequence]_vars

\* C19: no successful mutation is lost: when two concurrent mutations of the
\* same account touch different parts of the credential map and both report
\* success (here clients.set and set of a password or totp token), the final
\* account record reflects the effect of both.
C19_NoLostUpdate ==
  (/\ \A p \in Procs : pc[p] = "idle"
   /\ res[1].kind = "ok"
   /\ res[1].call = "clients.set"
   /\ res[2].kind = "ok"
   /\ res[2].call = "set")
    => /\ tokenStored(meta, res[2].type, res[2].id)
       /\ \E clientId \in {"c1", "c2"} : isRegistered(meta, clientId)

\* C20: no public operation (set, remove, verify, clients.set,
\* setAuthenticationRequirements, setRecoveryEmail) surfaces a write conflict
\* (a stale sequence number, InvalidStateError) to its caller: a conflict
\* detected during the write is always retried internally.
C20_ConflictNeverSurfaces ==
  \A p \in Procs :
    res[p].kind = "error" => res[p].name # "InvalidStateError"

\* the request is inside _pushNonceToken
pushingNonce(p) == pc[p] \in {"nonce_push", "nonce_check", "nonce_sweep"}

retriesExhausted ==
  Error("OperationError", "Failed to add token; too many retries.")

\* C21: set, type nonce, always terminates: it attempts the bounded push at
\* most maxRetries + 1 = 11 times (each failed push takes one of the
\* maxRetries retries, and none is given back), and it ends in exactly one
\* of success, NotAllowedError, NotFoundError or, once the retries are
\* exhausted and only then, OperationError.
C21_NonceSetTerminates ==
  /\ [](\A p \in Procs :
          pushingNonce(p) => loc[p].retries \in 0..maxRetries)
  /\ [][\A p \in Procs :
          /\ (pc[p] = "idle" /\ pushingNonce(p)')
               => pc'[p] = "nonce_push" /\ loc'[p].retries = maxRetries
          /\ (pc[p] = "nonce_push" /\ pushingNonce(p)')
               => \/ UNCHANGED <<pc[p], loc[p]>>
                  \/ /\ pc'[p] = "nonce_check"
                     /\ loc'[p].retries = loc[p].retries - 1
          /\ (pc[p] \in {"nonce_check", "nonce_sweep"} /\ pushingNonce(p)')
               => loc'[p].retries = loc[p].retries
          /\ (pushingNonce(p) /\ ~pushingNonce(p)')
               => /\ pc'[p] \in {"idle", "notify"}
                  /\ pc'[p] = "idle"
                       => /\ res'[p].call = "set"
                          /\ res'[p].type = "nonce"
                          /\ \/ res'[p].kind = "ok"
                             \/ /\ res'[p].kind = "error"
                                /\ res'[p].name \in
                                     {"NotAllowedError", "NotFoundError",
                                      "OperationError"}
                          /\ res'[p] = called("set", "nonce", retriesExhausted)
                               <=> /\ pc[p] = "nonce_push"
                                   /\ loc[p].retries = 0
                                   /\ meta' = meta]_vars
  /\ (pushingNonce(1) ~> pc[1] = "idle")

\* C21, its case: the retries have been exhausted and set has raised
\* OperationError
C21_Witness == res[1] = called("set", "nonce", retriesExhausted)

\* the call of request p was rejected and nothing was changed
rejectedUnchanged(p) ==
  /\ pc'[p] = "idle"
  /\ res'[p].kind = "error"
  /\ meta' = meta

\* C22: every operation that takes an account reference (set, get, getAll,
\* verify, clients.set, clients.isRegistered) requires exactly one of
\* accountId or email: a call that supplies both, or neither, is rejected
\* with an error before any state is read or changed.
C22_ExactlyOneReference ==
  [][\A p \in Procs, id \in ReferenceIds, email \in ReferenceEmails :
       (pc[p] = "idle" /\ notExactlyOne(id, email))
         => /\ \A type \in {"nonce", "password"}, hash \in PasswordHashes :
                 SetBy(p, id, email, type, hash) => rejectedUnchanged(p)
            /\ \A type \in {"nonce", "password"}, f \in BOOLEAN :
                 GetBy(p, id, email, type, 0, f) => rejectedUnchanged(p)
            /\ \A type \in {"nonce", "password"} :
                 GetAllBy(p, id, email, type) => rejectedUnchanged(p)
            /\ \A hash \in PasswordHashes :
                 VerifyBy(p, id, email, "password", hash)
                   => rejectedUnchanged(p)
            /\ ClientsSetBy(p, id, email, "c1", TRUE) => rejectedUnchanged(p)
            /\ IsRegistered(p, id, email, "c1") => rejectedUnchanged(p)]_vars

\* C23: set, type password, with a serialized hash whose iteration count is
\* below minIterations raises ConstraintError and leaves any previously
\* stored password unchanged; a hash with an unsupported algorithm id or
\* malformed parameters raises SyntaxError and also changes nothing.
C23_InvalidHashRejected ==
  [][\A p \in Procs, c \in HashCases, r \in TotpInputs :
       (pc[p] = "idle" /\ SetPassword(p, c[1], r, FALSE))
         => /\ c[2] = "low"
                 => /\ res'[p].kind = "error"
                    /\ res'[p].name = "ConstraintError"
                    /\ meta' = meta
            /\ c[2] \in {"unsupported", "malformed"}
                 => /\ res'[p].kind = "error"
                    /\ res'[p].name = "SyntaxError"
                    /\ meta' = meta]_vars

\* C24: for every valid serialized hash h, after set(password, h) an
\* immediately following get(password) returns a token whose hashParameters
\* carry the same algorithm id, iteration count and salt as h; and
\* serializePhc and deserializePhc are mutually inverse on the PHC objects
\* that pbkdf2 produces.
C24_PhcRoundTrip ==
  /\ [](\A x \in PhcInputs :
          LET made == pbkdf2(x[1], x[2], x[3])
              parsed == deserializePhc(made.hash)
          IN /\ made.hash = serializePhc(made.phc)
             /\ parsed.ok
             /\ parsed.phc = made.phc
             /\ serializePhc(parsed.phc) = made.hash)
  /\ [][\A p \in Procs, x \in PhcInputs, r \in TotpInputs :
          (/\ pc[p] = "idle"
           /\ SetPassword(p, pbkdf2(x[1], x[2], x[3]).hash, r, FALSE))
            => LET got == get(meta', "password", 0, TRUE, now')
               IN /\ res'[p].kind = "ok"
                  /\ got.kind = "ok"
                  /\ got.token.id = res'[p].id
                  /\ got.token.hashParameters
                       = [id |-> pbkdf2Id, params |-> [i |-> x[3]],
                          salt |-> x[2]]]_vars

\* C24, its case: set has stored a password from a valid serialized hash,
\* replacing an earlier one, and get returns it
C24_Witness ==
  /\ res[1].kind = "ok"
  /\ res[1].call = "set"
  /\ res[1].type = "password"
  /\ res[1].id > 1
  /\ LET got == get(meta, "password", 0, TRUE, now)
     IN /\ got.kind = "ok"
        /\ got.token.id = res[1].id
        /\ got.token.hashParameters.params.i = iterations + 1

\* the proof derived from the challenge of a stored human nonce
correctProof(token) ==
  pbkdf2("111111", token.hashParameters.salt,
         token.hashParameters.params.i).hash

\* another stored nonce, created for client c, answers the same proof
answersToo(k, c) ==
  \E j \in 1..Len(storedNonces) :
    /\ j # k
    /\ clientOf(storedNonces[j].id) = c
    /\ correctProof(storedNonces[j]) = correctProof(storedNonces[k])

\* C25: a nonce created with clientId c is bound to c: the proof derived
\* from its challenge matches its stored fast hash exactly when the same
\* clientId c is supplied; verify with that proof returns the account
\* identity through this nonce only when c is supplied, and returns false
\* when a different clientId or no clientId is supplied, the nonce being the
\* only one that answers the proof.
C25_NonceBoundToClient ==
  \A k \in 1..Len(storedNonces), c \in BindingClients :
    LET token == storedNonces[k]
        out == verifyResult(meta, "nonce", correctProof(token), "", c, <<>>,
                            now)
    IN /\ verifySlowHashOrUnguessableChallenge(c, correctProof(token),
                                               token.sha256)
            <=> c = clientOf(token.id)
       /\ (out.kind = "ok" /\ out.tokenId = token.id)
            => c = clientOf(token.id)
       /\ (c # clientOf(token.id) /\ ~answersToo(k, c))
            => out = [kind |-> "false"]
       /\ (c = clientOf(token.id) /\ ~answersToo(k, c) /\ now < token.expires)
            => out = verified([id |-> accountId, email |-> accountEmail],
                              "nonce", token)

\* C25, its case: two unexpired nonces of the same challenge and salt are
\* stored, one created for client c1 and one for no client, and verify has
\* returned the account for the one created for c1
C25_Witness ==
  \E k, j \in 1..Len(storedNonces) :
    /\ clientOf(storedNonces[k].id) = "c1"
    /\ clientOf(storedNonces[j].id) = ""
    /\ correctProof(storedNonces[j]) = correctProof(storedNonces[k])
    /\ now < storedNonces[k].expires
    /\ now < storedNonces[j].expires
    /\ res[1] = called("verify", "nonce",
                       verified([id |-> accountId, email |-> accountEmail],
                                "nonce", storedNonces[k]))

\* the stored tokens of a type that have a salt and no hashParameters
legacyTokens(type) ==
  {k \in 1..Len(tokenList(meta, type)) :
     /\ isLegacy(tokenList(meta, type)[k])
     /\ "hashParameters" \notin DOMAIN tokenList(meta, type)[k]}

listed(tokens, id) == \E j \in 1..Len(tokens) : tokens[j].id = id

\* the claim of C26 for the legacy tokens of one type
legacyAutoExpired(type) ==
  \A k \in legacyTokens(type) :
    LET token == tokenList(meta, type)[k]
        all == getAll(meta, type, now)
        proof == CHOOSE h \in LegacyProofs :
                   legacySha256(h) = token.sha256
        out == verifyResult(meta, type, proof, "", "", <<>>, now)
    IN /\ ~listed(all.tokens, token.id)
       /\ listed(all.expiredTokens, token.id)
       /\ ("expires" \notin DOMAIN token \/ now < token.expires)
            => out = verified([id |-> accountId, email |-> accountEmail],
                              type, token)

\* C26 as stated: a stored legacy token (it has a salt and no
\* hashParameters), of whatever type, is always excluded from the live
\* tokens returned by getAll and reported as expired, even when its expires
\* timestamp lies in the future, while verify with the proof matching its
\* legacy (prefixed) fast hash still returns the account identity.
C26_LegacyTokenExpired ==
  \A type \in {"nonce", "password"} : legacyAutoExpired(type)

\* C26 as the code has it: a stored legacy nonce is always excluded from the
\* live tokens returned by getAll and reported as expired, even when its
\* expires timestamp lies in the future, while verify with the proof
\* matching its legacy (prefixed) fast hash still returns the account
\* identity until that timestamp; a stored legacy password is returned by
\* getAll as a live token, with bcrypt hashParameters, and verifies.
C26_LegacyNonceExpired ==
  /\ legacyAutoExpired("nonce")
  /\ \A k \in legacyTokens("password") :
       LET token == tokenList(meta, "password")[k]
           all == getAll(meta, "password", now)
       IN /\ all.tokens = <<withBcryptParameters(token)>>
          /\ all.tokens[1].hashParameters
               = [id |-> "bcrypt", salt |-> token.salt, params |-> [r |-> 10]]
          /\ all.expiredTokens = <<>>
          /\ verifyResult(meta, "password", bcryptHash("pw1", legacySalt), "",
                          "", <<>>, now)
               = verified([id |-> accountId, email |-> accountEmail],
                          "password", token)

\* C26, its case: a legacy nonce whose expires lies in the future is stored,
\* and getAll has reported it as expired and no token as live
C26_Witness ==
  /\ \E k \in legacyTokens("nonce") : now < storedNonces[k].expires
  /\ res[1].kind = "ok"
  /\ res[1].call = "getAll"
  /\ res[1].type = "nonce"
  /\ res[1].tokens = <<>>
  /\ \E k \in legacyTokens("nonce") :
       /\ now < storedNonces[k].expires
       /\ storedNonces[k].id \in
            {res[1].expiredTokens[j] : j \in 1..Len(res[1].expiredTokens)}

\* C27: under any interleaving of two concurrent verify calls that present the
\* same correct proof for the same pending nonce, at most one of them returns
\* the account identity: no two requests have both been returned the identity
\* for one nonce.
C27_AtMostOneIdentity ==
  \A p, q \in Procs :
    (/\ p # q
     /\ res[p].kind = "ok" /\ res[p].call = "verify"
     /\ res[q].kind = "ok" /\ res[q].call = "verify")
      => res[p].tokenId # res[q].tokenId

\* C28: under any interleaving of two concurrent set calls of type totp on an
\* account that holds no totp token, once both have ended exactly one has
\* succeeded, the other has raised DuplicateError, and the stored secret is
\* the one returned to the successful caller.
C28_TotpRace ==
  LET succeeded == {p \in Procs : res[p].kind = "ok"}
  IN (\A p \in Procs : pc[p] = "idle" /\ res[p] # NoRes) =>
       /\ Cardinality(succeeded) = 1
       /\ \A p \in Procs \ succeeded :
            res[p].kind = "error" /\ res[p].name = "DuplicateError"
       /\ \A p \in succeeded : meta.tokens["totp"].secret = res[p].secret

\* C29: when the stored nonce array is full (length = maxNonceCount) but holds
\* at least one expired or legacy entry, a set of type nonce that runs
\* without concurrent operations succeeds: the call is not refused, its push
\* fails at the bound, it finds the array full with expired entries and
\* sweeps, the sweep removes exactly the expired and the legacy entries (no
\* unexpired non-legacy nonce is removed), the next push appends the new
\* nonce, and the call ends in no other way than success.
fullWithStale ==
  /\ Len(storedNonces) = maxNonceCount
  /\ \E k \in 1..Len(storedNonces) :
       isLegacy(storedNonces[k]) \/ storedNonces[k].expires <= now

sweptOnlyStale ==
  /\ Len(storedNonces') < maxNonceCount
  /\ \A k \in 1..Len(storedNonces) :
       (k \in unexpiredNonces(now))
         <=> \E j \in 1..Len(storedNonces') :
               storedNonces'[j] = storedNonces[k]
  /\ \A j \in 1..Len(storedNonces') :
       \E k \in unexpiredNonces(now) : storedNonces'[j] = storedNonces[k]

C29_FullArraySwept ==
  [][/\ (fullWithStale /\ SetNonceStep(1, MaxTokens))
          => pc'[1] = "nonce_push"
     /\ (fullWithStale /\ SetNoncePush(1))
          => pc'[1] = "nonce_check" /\ meta' = meta
     /\ (fullWithStale /\ SetNonceCheck(1)) => pc'[1] = "nonce_sweep"
     /\ (fullWithStale /\ SetNonceSweep(1))
          => pc'[1] = "nonce_push" /\ sweptOnlyStale
     /\ (Len(storedNonces) < maxNonceCount /\ SetNoncePush(1))
          => /\ res'[1].kind = "ok"
             /\ res'[1].id = loc[1].token.id
             /\ storedNonces' = Append(storedNonces, loc[1].token)
     /\ (pc[1] \in {"nonce_push", "nonce_check", "nonce_sweep"}
           /\ pc'[1] = "idle")
          => res'[1].kind = "ok"]_vars

\* C29, its case: the third nonce has been created by a set that swept the
\* first one out of the full array, and the second one, unexpired, was kept
C29_Witness ==
  /\ pc[1] = "idle"
  /\ res[1].kind = "ok"
  /\ res[1].call = "set"
  /\ res[1].id = 3
  /\ idsOf(storedNonces) = <<2, 3>>
  /\ storedNonces[1].expires > now

\* C30: verify of type nonce returns the account identity whenever the stored
\* array contains at least one unexpired entry whose fast hash matches the
\* supplied proof and clientId and whose required methods are met,
\* irrespective of any expired entries in the array, including an expired
\* entry that carries the same fast hash and precedes it.
C30_UnexpiredMatchVerifies ==
  \A c \in ClientIds, a \in AuthenticatedMethods :
    \A proof \in Proofs(meta, "nonce", now) :
      (\E k \in unexpiredNonces(now) :
         /\ verifySlowHashOrUnguessableChallenge(
              c, proofValue(proof), storedNonces[k].sha256)
         /\ checkAuthenticationRequirements(
              storedNonces[k].requiredAuthenticationMethods, a))
        => verifyOutcome(meta, "nonce", proof[1], proof[2], c, a, now).kind
             = "ok"

\* an assignment of the slots to pairwise distinct entries of the
\* authenticated list, each entry discharging the slot assigned to it
matchedOneToOne(required, authenticated) ==
  \E f \in [1..Len(required) -> 1..Len(authenticated)] :
    /\ \A i, j \in 1..Len(required) : f[i] = f[j] => i = j
    /\ \A i \in 1..Len(required) : authenticated[f[i]] \in required[i]

\* C31: the requirement matcher fails closed for all inputs, including
\* requirement lists where one identifier appears in several slots:
\* checkAuthenticationRequirements returns true only if the slots can be
\* matched one-to-one with distinct entries of authenticatedMethods that
\* discharge them, and the requirement list it was given is the same after
\* the call as before it.
C31_MatcherFailsClosed ==
  /\ [](\A p \in Procs :
          (loc[p].op = "match" /\ res[p] # NoRes /\ res[p].met)
            => matchedOneToOne(loc[p].requiredAuthenticationMethods,
                               loc[p].authenticatedMethods))
  /\ [][\A p \in Procs :
          CheckRequirements(p)
            => loc'[p].requiredAuthenticationMethods
                 = loc[p].requiredAuthenticationMethods]_vars

\* C31, its case: a list with one identifier in both of its slots has been
\* matched and found unmet although every slot has a member authenticated
C31_Witness ==
  /\ loc[1].op = "match"
  /\ loc[1].requiredAuthenticationMethods = <<{"a", "b"}, {"a"}>>
  /\ loc[1].authenticatedMethods = <<"a", "b">>
  /\ res[1] # NoRes
  /\ ~res[1].met

\* C32: every clients.set call with notify enabled that successfully writes
\* the client registration emits a client event after the write, 'created'
\* when authenticated = false and 'authenticated' when authenticated = true:
\* when such a call returns, its event is among the emitted ones.
C32_WriteEmitsEvent ==
  [][\A p \in Procs :
       (/\ pc[p] \in {"client_write", "client_notify"}
        /\ loc[p].notify
        /\ ~loc[p].warning
        /\ pc'[p] = "idle"
        /\ res'[p].kind = "ok")
         => \E failed \in BOOLEAN :
              clientEvent(IF loc[p].authenticated THEN "authenticated"
                          ELSE "created", loc[p].clientId, failed)
                \in events']_vars

\* C33: under any interleaving of two concurrent clients.set calls with
\* authenticated = true for the same account and clientId, at most one
\* completes without DuplicateError.
C33_OnePromotionWins ==
  Cardinality({p \in Procs :
                 res[p] = called("clients.set", "", [kind |-> "ok"])}) <= 1

\* the conflicts the call of request 1 has met so far, when request 2 writes
\* once per read of request 1 and nothing else moves the sequence
conflictsMet == meta.sequence

\* C34: remove and clients.set terminate even when every conditional write of
\* theirs meets a concurrent modification: after a bounded number of
\* consecutive conflicts (maxRetries, the bound of the one counted loop) they
\* stop retrying and raise OperationError; no call goes back to read the
\* record after more conflicts than that.
C34_RetryStormEnds ==
  pc[1] \in {"client_read", "remove_read"} => conflictsMet <= maxRetries

\* the stored nonces at index k that the sweep is to remove at time t
staleAt(k, t) ==
  isLegacy(storedNonces[k]) \/ storedNonces[k].expires <= t

\* the sweep's effect on the account: of the nonces exactly the stale ones
\* are gone, the others are kept in their order, and nothing else changes
sweptExactly ==
  LET kept == {k \in 1..Len(storedNonces) : ~staleAt(k, now)}
  IN /\ Len(storedNonces') = Cardinality(kept)
     /\ \A k \in kept :
          storedNonces'[Cardinality({j \in kept : j <= k})] = storedNonces[k]
     /\ DOMAIN meta'.tokens \ {"nonce"} = DOMAIN meta.tokens \ {"nonce"}
     /\ \A type \in DOMAIN meta.tokens \ {"nonce"} :
          meta'.tokens[type] = meta.tokens[type]
     /\ meta'.clients = meta.clients
     /\ meta'.sequence = meta.sequence

holdsLegacy(m, type) ==
  \E k \in 1..Len(tokenList(m, type)) : isLegacy(tokenList(m, type)[k])

\* C36: reading the credential set of an account (get or getAll) that holds a
\* legacy token (salt present, no hashParameters) evicts that legacy token
\* from storage, so it is no longer stored after the read.
C36_ReadEvictsLegacy ==
  [][\A p \in Procs, type \in {"nonce", "password"} :
       (/\ holdsLegacy(meta, type)
        /\ \/ GetAll(p, type)
           \/ \E id \in TokenIds, f \in BOOLEAN : Get(p, type, id, f))
         => ~holdsLegacy(meta', type)]_vars

\* C37: in every reachable state, including after concurrent creations, all
\* unexpired human-entry nonces of an account whose hash parameters match the
\* current configuration (algorithm id and iteration count) share one and
\* the same salt.
C37_OneSalt ==
  \A j, k \in unexpiredNonces(now) :
    (/\ usesCurrentParameters(storedNonces[j])
     /\ usesCurrentParameters(storedNonces[k]))
      => storedNonces[j].hashParameters.salt
           = storedNonces[k].hashParameters.salt

\* C38: under any interleaving with other operations, set of type nonce raises
\* NotAllowedError only if at some instant during the call the account held
\* maxNonceCount unexpired, non-legacy nonces.  Where no time passes and
\* nothing removes an unexpired nonce, their number only grows, so it is
\* largest at the step that rejects: that step finds the account full of them.
C38_RejectsOnlyWhenFull ==
  [][\A p \in Procs :
       (/\ res'[p] # res[p]
        /\ res'[p] = called("set", "nonce",
                            Error("NotAllowedError", tooManyMessage)))
         => Cardinality(unexpiredNonces(now)) >= maxNonceCount]_vars

\* what each operation finds, at time t, for the stored nonce with the id
expiredForGet(id, t) ==
  get(meta, "nonce", id, TRUE, t) = NotFound("Authentication token has expired.")

expiredForGetAll(id, t) == hasId(getAll(meta, "nonce", t).expiredTokens, id)

expiredForSweep(id, t) ==
  ~hasId(tokenList(removeExpiredTokens(meta, t).meta, "nonce"), id)

expiredForVerify(id, t) ==
  \E k \in 1..Len(storedNonces) :
    storedNonces[k].id = id /\ isExpiredForVerify(storedNonces[k], t)

\* C39: for any stored token and any instant t, including t equal to the
\* token's expires timestamp, get (with filterExpiredTokens = true), getAll,
\* verify and the expired-token sweep all agree on whether the token is
\* expired.
C39_ExpiryAgrees ==
  \A k \in 1..Len(storedNonces) :
    LET id == storedNonces[k].id
    IN /\ expiredForGet(id, now) <=> expiredForGetAll(id, now)
       /\ expiredForGetAll(id, now) <=> expiredForVerify(id, now)
       /\ expiredForVerify(id, now) <=> expiredForSweep(id, now)

\* C40: for a stored credential whose requiredAuthenticationMethods are not
\* met by the caller, the outcome of verify does not depend on whether the
\* presented proof is correct: two runs that differ only in the proof yield
\* the same result, for password, totp and nonce alike.
C40_ProofIndependent ==
  \A type \in TOKEN_TYPES, c \in ClientIds, a \in AuthenticatedMethods :
    LET tokens == tokenList(meta, type)
        proofs == {q \in Proofs(meta, type, now) : wellFormed(type, q)}
    IN (/\ Len(tokens) > 0
        /\ \A k \in 1..Len(tokens) : requirementsUnmet(tokens[k], a))
         => \A p, q \in proofs :
              verifyResult(meta, type, p[1], p[2], c, a, now)
                = verifyResult(meta, type, q[1], q[2], c, a, now)

====
